---------------------------- MODULE Spec2Model ----------------------------
(***************************************************************************)
(* A model of the FSFS revision-file statistics engine                     *)
(* (subversion/libsvn_fs_fs/stats.c): the histogram and largest-changes    *)
(* accumulators, the per-revision representation registry, the noderev     *)
(* parser, the physical and logical addressing drivers, the aggregation    *)
(* pass and svn_fs_fs__get_stats itself.                                    *)
(***************************************************************************)
EXTENDS Integers, Sequences, FiniteSets, TLC

VARIABLES
  fs,         \* the repository get_stats reads (fixed after Init)
  cb,         \* the caller's callbacks and batons (fixed after Init)
  pc,         \* control location of the running call
  query,      \* query_t
  infos,      \* the revision_info_t objects, keyed by their revision
  stats,      \* the svn_fs_fs__stats_t object *stats points to
  ret,        \* what the caller holds: the out-pointer and the error
  loop,       \* local variables of read_revisions and of the drivers
  handles,    \* every rev / pack file handle opened, with its state
  events,     \* ghost: callback invocations and file operations, in order
  refs,       \* ghost: each ++ref_count, in order
  parsed,     \* ghost: the noderevs whose read_noderev completed, in order
  changes,    \* ghost: the add_change calls, in order
  descents,   \* ghost: the parse_dir calls and the entries followed, in order
  results,    \* ghost: the outcome of each finished get_stats call
  histogram,  \* the histogram of the add_to_histogram harness
  hsize,      \* the sizes the harness added, in order
  content,    \* the byte string of the get_change_count harness
  counted,    \* the get_change_count harness's result
  hcontent,   \* the revision of the read_revision_header harness
  header,     \* what read_revision_header returned for it
  wc,         \* the working copy and the arguments of get_wc_mergeinfo
  walk,       \* the local variables and results of get_wc_mergeinfo
  elide       \* the arguments and the result of should_elide_mergeinfo

engineVars == <<fs, cb, pc, query, infos, stats, ret, loop, handles,
                events, refs, parsed, changes, descents, results>>
histVars   == <<histogram, hsize>>
countVars  == <<content, counted>>
headerVars == <<hcontent, header>>
clientVars == <<wc, walk, elide>>
vars       == <<fs, cb, pc, query, infos, stats, ret, loop, handles,
                events, refs, parsed, changes, descents, results,
                histogram, hsize, content, counted, hcontent, header,
                wc, walk, elide>>

-----------------------------------------------------------------------------
(* Bounds of the model. *)

\* head revision of the repositories read
HeadRev == 2
\* largest size handed to the add_to_histogram harness
MaxSize == 10
\* number of add_to_histogram calls of the harness
MaxAdds == 3
\* largest rep size handed to the add_change harness
MaxChangeSize == 2
\* number of add_change calls of the harness
MaxChanges == 3
\* largest capacity the harness gives initialize_largest_changes
MaxCount == 2
\* longest byte string handed to get_change_count
MaxLen == 6
\* longest end of a revision handed to read_revision_header
MaxTail == 3
\* number of components of the deepest path handed to get_wc_mergeinfo
MaxDepth == 2
\* youngest revision of the working copies
MaxRev == 2

(* Program constants. *)

\* number of lines of svn_fs_fs__histogram_t
HistogramLines == 64
\* capacity create_stats gives initialize_largest_changes
LargestChangesCount == 64
\* SVN_INVALID_REVNUM
SVN_INVALID_REVNUM == -1
\* length of the "ENDREP\n" trailer counted by add_rep_pack_stats
EndrepLen == 7
\* read_phys_revision_file / read_log_revision_file progress interval of
\* non-sharded repositories
ProgressInterval == 1000

-----------------------------------------------------------------------------
(* Small helpers. *)

Opt(x)  == <<x>>
None    == <<>>
IsSome(o) == Len(o) = 1
Get(o)  == o[1]

RECURSIVE SumSeq(_)
SumSeq(s) == IF s = <<>> THEN 0 ELSE Head(s) + SumSeq(Tail(s))

\* F of the value of X, which is computed once
Bind(x, F(_)) == CHOOSE r \in { F(y) : y \in {x} } : TRUE

Extend(f, k, v) == [x \in DOMAIN f \cup {k} |-> IF x = k THEN v ELSE f[x]]

-----------------------------------------------------------------------------
(* Histograms. *)

EmptyLine == [count |-> 0, sum |-> 0]

EmptyHistogram ==
  [total |-> EmptyLine, lines |-> [k \in 0 .. HistogramLines - 1 |-> EmptyLine]]

\* the loop  while (((apr_int64_t)(1) << shift) <= size) shift++;
RECURSIVE HistogramShift(_, _)
HistogramShift(shift, size) ==
  IF 2 ^ shift <= size THEN HistogramShift(shift + 1, size) ELSE shift

add_to_histogram_wrong_line(h, size) ==
  LET shift == HistogramShift(1, size) IN
  [total |-> [count |-> h.total.count + 1, sum |-> h.total.sum + size],
   lines |-> [h.lines EXCEPT ![shift] =
                 [count |-> @.count + 1, sum |-> @.sum + size]]]

add_to_histogram_no_total(h, size) ==
  LET shift == HistogramShift(0, size) IN
  [total |-> [count |-> h.total.count + 1, sum |-> h.total.sum],
   lines |-> [h.lines EXCEPT ![shift] =
                 [count |-> @.count + 1, sum |-> @.sum + size]]]

add_to_histogram(h, size) ==
  LET shift == HistogramShift(0, size) IN
  [total |-> [count |-> h.total.count + 1, sum |-> h.total.sum + size],
   lines |-> [h.lines EXCEPT ![shift] =
                 [count |-> @.count + 1, sum |-> @.sum + size]]]

-----------------------------------------------------------------------------
(* Paths are strings of characters; add_change looks for the extension. *)

\* strrchr: the last index of C in S at or after FROM, 0 for NULL
StrRChr(s, c, from) ==
  LET RECURSIVE Scan(_)
      Scan(i) == IF i < from THEN 0
                 ELSE IF s[i] = c THEN i ELSE Scan(i - 1)
  IN Scan(Len(s))

NoExtension == <<"(", "n", "o", "n", "e", ")">>

PathExtension(path) ==
  LET file_name == StrRChr(path, "/", 1)
      extension == IF file_name = 0 THEN 0 ELSE StrRChr(path, ".", file_name)
  IN IF extension = 0 \/ extension = file_name + 1
       THEN NoExtension
       ELSE SubSeq(path, extension, Len(path))

-----------------------------------------------------------------------------
(* The statistics object. *)

RepKinds == {"unused_rep", "dir_property_rep", "file_property_rep",
             "dir_rep", "file_rep"}

EmptyPackStats ==
  [count |-> 0, packed_size |-> 0, expanded_size |-> 0, overhead_size |-> 0]

EmptyRepStats ==
  [total |-> EmptyPackStats, uniques |-> EmptyPackStats,
   shared |-> EmptyPackStats, references |-> 0, expanded_size |-> 0]

EmptyNodeStats == [count |-> 0, size |-> 0]

initialize_largest_changes(count) ==
  [count    |-> count,
   min_size |-> 1,
   changes  |-> [i \in 1 .. count |->
                   [size |-> 0, revision |-> SVN_INVALID_REVNUM, path |-> <<>>]]]

create_stats ==
  [total_size |-> 0, revision_count |-> 0, change_count |-> 0, change_len |-> 0,
   total_rep_stats     |-> EmptyRepStats,
   dir_rep_stats       |-> EmptyRepStats,
   file_rep_stats      |-> EmptyRepStats,
   dir_prop_rep_stats  |-> EmptyRepStats,
   file_prop_rep_stats |-> EmptyRepStats,
   total_node_stats |-> EmptyNodeStats,
   dir_node_stats   |-> EmptyNodeStats,
   file_node_stats  |-> EmptyNodeStats,
   largest_changes  |-> initialize_largest_changes(LargestChangesCount),
   rep_size_histogram        |-> EmptyHistogram,
   node_size_histogram       |-> EmptyHistogram,
   added_rep_size_histogram  |-> EmptyHistogram,
   added_node_size_histogram |-> EmptyHistogram,
   unused_rep_histogram      |-> EmptyHistogram,
   dir_prop_rep_histogram    |-> EmptyHistogram,
   dir_prop_histogram        |-> EmptyHistogram,
   file_prop_rep_histogram   |-> EmptyHistogram,
   file_prop_histogram       |-> EmptyHistogram,
   dir_rep_histogram         |-> EmptyHistogram,
   dir_histogram             |-> EmptyHistogram,
   file_rep_histogram        |-> EmptyHistogram,
   file_histogram            |-> EmptyHistogram,
   by_extension |-> [e \in {} |-> [node_histogram |-> EmptyHistogram,
                                   rep_histogram  |-> EmptyHistogram]]]

LargestInsert_ahead_of_equal(lc, rep_size, revision, path) ==
  LET info == [size |-> rep_size, revision |-> revision, path |-> path]
      Breaks == { i \in 1 .. lc.count - 1 : lc.changes[i].size > rep_size }
      Pos(from) == IF Breaks = {} THEN 0
                   ELSE CHOOSE i \in Breaks : \A j \in Breaks : j <= i
      Moved(pos) == [k \in 1 .. lc.count |->
                       IF k - 1 < pos THEN lc.changes[k]
                       ELSE IF k - 1 = pos THEN info
                       ELSE lc.changes[k - 1]]
  IN Bind(Bind(Pos(lc.count - 1), Moved), LAMBDA moved :
       [count |-> lc.count, min_size |-> moved[lc.count].size,
        changes |-> moved])

LargestInsert_stale_min(lc, rep_size, revision, path) ==
  LET info == [size |-> rep_size, revision |-> revision, path |-> path]
      \* the C indices i at which the loop from count - 1 down to 1 breaks;
      \* the entry before i is lc.changes[i] here
      Breaks == { i \in 1 .. lc.count - 1 : lc.changes[i].size >= rep_size }
      Pos(from) == IF Breaks = {} THEN 0
                   ELSE CHOOSE i \in Breaks : \A j \in Breaks : j <= i
      Moved(pos) == [k \in 1 .. lc.count |->
                       IF k - 1 < pos THEN lc.changes[k]
                       ELSE IF k - 1 = pos THEN info
                       ELSE lc.changes[k - 1]]
  IN Bind(Bind(Pos(lc.count - 1), Moved), LAMBDA moved :
       [count |-> lc.count, min_size |-> lc.min_size, changes |-> moved])

\* the "identify largest reps" block of add_change; the array holds
\* pointers, the last of which is overwritten and moved towards the front
LargestInsert(lc, rep_size, revision, path) ==
  LET info == [size |-> rep_size, revision |-> revision, path |-> path]
      \* the C indices i at which the loop from count - 1 down to 1 breaks;
      \* the entry before i is lc.changes[i] here
      Breaks == { i \in 1 .. lc.count - 1 : lc.changes[i].size >= rep_size }
      Pos(from) == IF Breaks = {} THEN 0
                   ELSE CHOOSE i \in Breaks : \A j \in Breaks : j <= i
      Moved(pos) == [k \in 1 .. lc.count |->
                       IF k - 1 < pos THEN lc.changes[k]
                       ELSE IF k - 1 = pos THEN info
                       ELSE lc.changes[k - 1]]
  IN Bind(Bind(Pos(lc.count - 1), Moved), LAMBDA moved :
       [count |-> lc.count, min_size |-> moved[lc.count].size,
        changes |-> moved])

LargestChangesStep(lc, rep_size, revision, path) ==
  IF rep_size >= lc.min_size
    THEN LargestInsert(lc, rep_size, revision, path)
    ELSE lc

\* the histogram of STATS named by FIELD, with SIZE added
HAdd(st, field, size) == [st EXCEPT ![field] = add_to_histogram(@, size)]

AddGlobalHistograms(st, rep_size, expanded_size, plain_added) ==
  LET s1 == HAdd(HAdd(st, "rep_size_histogram", rep_size),
                 "node_size_histogram", expanded_size)
  IN IF plain_added
       THEN HAdd(HAdd(s1, "added_rep_size_histogram", rep_size),
                 "added_node_size_histogram", expanded_size)
       ELSE s1

AddKindHistograms(st, rep_size, expanded_size, kind) ==
  CASE kind = "unused_rep" -> HAdd(st, "unused_rep_histogram", rep_size)
    [] kind = "dir_property_rep" ->
         HAdd(HAdd(st, "dir_prop_rep_histogram", rep_size),
              "dir_prop_histogram", expanded_size)
    [] kind = "file_property_rep" ->
         HAdd(HAdd(st, "file_prop_rep_histogram", rep_size),
              "file_prop_histogram", expanded_size)
    [] kind = "dir_rep" ->
         HAdd(HAdd(st, "dir_rep_histogram", rep_size),
              "dir_histogram", expanded_size)
    [] kind = "file_rep" ->
         HAdd(HAdd(st, "file_rep_histogram", rep_size),
              "file_histogram", expanded_size)

AddByExtension(st, rep_size, expanded_size, path, kind) ==
  IF kind = "file_rep"
    THEN LET extension == PathExtension(path)
             old == IF extension \in DOMAIN st.by_extension
                      THEN st.by_extension[extension]
                      ELSE [node_histogram |-> EmptyHistogram,
                            rep_histogram  |-> EmptyHistogram]
             new == [node_histogram |->
                       add_to_histogram(old.node_histogram, expanded_size),
                     rep_histogram |->
                       add_to_histogram(old.rep_histogram, rep_size)]
         IN [st EXCEPT !.by_extension = Extend(@, extension, new)]
    ELSE st

add_change(st, rep_size, expanded_size, revision, path, kind, plain_added) ==
  Bind([st EXCEPT !.largest_changes =
          LargestChangesStep(@, rep_size, revision, path)], LAMBDA s1 :
    Bind(AddGlobalHistograms(s1, rep_size, expanded_size, plain_added),
         LAMBDA s2 :
      Bind(AddKindHistograms(s2, rep_size, expanded_size, kind), LAMBDA s3 :
        AddByExtension(s3, rep_size, expanded_size, path, kind))))

-----------------------------------------------------------------------------
(* Change counting. *)

Newline == "\n"

\* the number of newlines among the first LEN bytes of CHANGES
RECURSIVE CountLines(_, _)
CountLines(bytes, len) ==
  IF len = 0 THEN 0
  ELSE CountLines(bytes, len - 1) + (IF bytes[len] = Newline THEN 1 ELSE 0)

get_change_count_lines(bytes, len) == CountLines(bytes, len)

get_change_count(bytes, len) == CountLines(bytes, len) \div 2

-----------------------------------------------------------------------------
(* The repositories read.  A revision holds representations and noderevs,   *)
(* a changed-paths section and, in its file, one item per index entry.  An  *)
(* item is named by a number: its place in the revision (the byte offset in *)
(* physical addressing, the item index in logical addressing).              *)

PathRoot == <<"/">>
PathA    == <<"/", "a", ".", "c">>
PathD    == <<"/", "d">>
PathH    == <<"/", ".", "h">>
PathDA   == <<"/", "d", "/", "a">>

\* shard size of the sharded repositories
ShardSize == 2
\* ffd->p2l_page_size of the repositories
PageSize == 16
\* the revision whose trailer line a damaged repository has lost
DamagedRev == 1

\* on-disk length of the representation at item I, and its expanded length
\* as the noderevs state it (0: not stated)
RepSize(i) == CASE i = 1 -> 3 [] i = 2 -> 10 [] i = 3 -> 2 [] OTHER -> 1
RepExpanded(i) == IF i = 2 THEN 12 ELSE 0
\* length of its "PLAIN\n" or "DELTA\n" header line
RepHeaderSize(i) == IF i = 2 THEN 8 ELSE 6

\* representation_t
RepRef(r, i) ==
  [revision |-> r, item_index |-> i, size |-> RepSize(i),
   expanded_size |-> RepExpanded(i)]

Id(r, i) == [rev |-> r, item |-> i]

\* node_revision_t, with the directory entries of its text
Noderev(r, i, kind, data, prop, pred, path, entries, len) ==
  [id |-> Id(r, i), kind |-> kind, data_rep |-> data, prop_rep |-> prop,
   predecessor_id |-> pred, created_path |-> path, entries |-> entries,
   len |-> len]

ChangeRecord == <<"a", " ", "a", Newline, Newline>>

Variants == {"plain", "shared", "dual", "dualroot", "cross", "subdir"}

\* the noderevs of revision R, by item
VariantNoderevs(v, r) ==
  CASE v = "plain" ->
         (10 :> Noderev(r, 10, "dir", Opt(RepRef(r, 1)), None, r > 0,
                        PathRoot, <<Id(r, 20)>>, 5)
          @@ 20 :> Noderev(r, 20, "file", Opt(RepRef(r, 2)), None, FALSE,
                           PathA, <<>>, 4))
    [] v = "shared" ->
         (10 :> Noderev(r, 10, "dir", Opt(RepRef(r, 1)), Opt(RepRef(r, 3)),
                        r > 0, PathRoot, <<Id(r, 20), Id(r, 30)>>, 6)
          @@ 20 :> Noderev(r, 20, "file", Opt(RepRef(r, 2)),
                           Opt(RepRef(r, 4)), FALSE, PathA, <<>>, 5)
          @@ 30 :> Noderev(r, 30, "file", Opt(RepRef(r, 2)),
                           Opt(RepRef(r, 3)), TRUE, PathH, <<>>, 5))
    [] v = "dual" ->
         (10 :> Noderev(r, 10, "dir", Opt(RepRef(r, 1)), None, r > 0,
                        PathRoot, <<Id(r, 20)>>, 5)
          @@ 20 :> Noderev(r, 20, "file", Opt(RepRef(r, 2)),
                           Opt(RepRef(r, 2)), FALSE, PathA, <<>>, 5))
    [] v = "dualroot" ->
         (10 :> Noderev(r, 10, "dir", Opt(RepRef(r, 1)), Opt(RepRef(r, 1)),
                        r > 0, PathRoot, <<Id(r, 20)>>, 6)
          @@ 20 :> Noderev(r, 20, "file", Opt(RepRef(r, 2)), None, FALSE,
                           PathA, <<>>, 4))
    [] v = "cross" ->
         (10 :> Noderev(r, 10, "dir", Opt(RepRef(r, 1)),
                        Opt(RepRef(r - 1, 2)), TRUE, PathRoot,
                        <<Id(r - 1, 20), Id(r, 20), Id(r, 30)>>, 6)
          @@ 20 :> Noderev(r, 20, "file", Opt(RepRef(r - 1, 2)), None, TRUE,
                           PathD, <<>>, 4)
          @@ 30 :> Noderev(r, 30, "file", Opt(RepRef(r, 2)), None, FALSE,
                           PathH, <<>>, 4))
    [] v = "subdir" ->
         (10 :> Noderev(r, 10, "dir", Opt(RepRef(r, 1)), None, r > 0,
                        PathRoot, <<Id(r, 30)>>, 5)
          @@ 30 :> Noderev(r, 30, "dir", Opt(RepRef(r, 4)), None, FALSE,
                           PathD, <<Id(r, 20)>>, 5)
          @@ 20 :> Noderev(r, 20, "file", Opt(RepRef(r, 2)), None, FALSE,
                           PathDA, <<>>, 4))

\* the representations stored in revision R, by item
VariantReps(v) ==
  CASE v = "shared" -> {1, 2, 3, 4}
    [] v = "subdir" -> {1, 2, 4}
    [] OTHER -> {1, 2}

\* the number of changed paths of the revision
VariantChanges(v) ==
  CASE v = "shared" -> 2 [] v = "cross" -> 2 [] v = "subdir" -> 2 [] OTHER -> 1

RECURSIVE Repeat(_, _)
Repeat(s, n) == IF n = 0 THEN <<>> ELSE s \o Repeat(s, n - 1)

\* a set of numbers as the ascending sequence of them
RECURSIVE Ascending(_)
Ascending(S) ==
  IF S = {} THEN <<>>
  ELSE LET m == CHOOSE x \in S : \A y \in S : x <= y
       IN <<m>> \o Ascending(S \ {m})

\* the items of revision R in the order its file holds them: the
\* representations, an empty item, the noderevs (the root last), the
\* changed-paths section
VariantItems(v, r) ==
  LET nodes == VariantNoderevs(v, r)
      reps  == Ascending(VariantReps(v))
      nrs   == Ascending(DOMAIN nodes \ {10}) \o <<10>>
  IN [k \in 1 .. Len(reps) |->
        [type |-> "rep",
         size |-> RepHeaderSize(reps[k]) + RepSize(reps[k]) + EndrepLen,
         item |-> [revision |-> r, number |-> reps[k]]]]
     \o << [type |-> "unused", size |-> 0,
            item |-> [revision |-> r, number |-> 0]] >>
     \o [k \in 1 .. Len(nrs) |->
           [type |-> "noderev", size |-> nodes[nrs[k]].len,
            item |-> [revision |-> r, number |-> nrs[k]]]]
     \o << [type |-> "changes",
            size |-> Len(ChangeRecord) * VariantChanges(v),
            item |-> [revision |-> r, number |-> 1]] >>

RevisionContent(v, r) ==
  [root     |-> 10,
   noderevs |-> VariantNoderevs(v, r),
   reps     |-> VariantReps(v),
   changes_text |-> Repeat(ChangeRecord, VariantChanges(v)),
   items    |-> VariantItems(v, r)]

ItemsSize(items) == SumSeq([k \in DOMAIN items |-> items[k].size])

\* the variants a revision may have: a reference to the previous revision
\* needs one
VariantsAt(r) ==
  IF r = 0 THEN {"plain", "shared", "dualroot"}
  ELSE IF r = 1 THEN {"cross", "dual", "subdir"}
  ELSE {"cross", "plain"}

Contents ==
  { [r \in 0 .. HeadRev |-> RevisionContent(vs[r], r)] :
      vs \in { f \in [0 .. HeadRev -> Variants] :
                 \A r \in 0 .. HeadRev : f[r] \in VariantsAt(r) } }

\* shard size and first unpacked revision
Layouts ==
  { [shard_size |-> 0, min_unpacked_rev |-> 0] }
  \cup { [shard_size |-> ShardSize, min_unpacked_rev |-> m] :
           m \in { x \in 0 .. HeadRev + 1 : x % ShardSize = 0 } }

\* a page smaller than a revision, and one that holds a whole pack file
PageSizes == {PageSize, PageSize * 32}

\* what has happened to the trailer line of revision DamagedRev
Damages == {"none", "no_newline", "long_line", "no_space", "beyond"}

\* fail_open: the base revision of the file that cannot be opened, or -1;
\* damage: what the trailer line of revision DamagedRev looks like;
\* pack_descending: a pack file holds the items of its later revisions first;
\* p2l_whole_page: the index answers a lookup with the entries of the whole
\* index page that holds the offset asked for
Repositories ==
  { [log_addressing |-> la, shard_size |-> l.shard_size,
     min_unpacked_rev |-> l.min_unpacked_rev, head |-> HeadRev,
     p2l_page_size |-> ps, p2l_whole_page |-> wp, pack_descending |-> pd,
     fail_open |-> fo, damage |-> dm, revs |-> c] :
      la \in BOOLEAN, l \in Layouts, pd \in BOOLEAN, fo \in {-1, HeadRev},
      ps \in PageSizes, wp \in BOOLEAN, dm \in Damages, c \in Contents }

\* the callbacks of the caller; cancel_at: the call from which on the cancel
\* function reports cancellation, 0 for never
Callbacks ==
  { [progress_func |-> "NULL", progress_baton |-> "progress_baton",
     cancel_func |-> "NULL", cancel_baton |-> "cancel_baton", cancel_at |-> 0],
    [progress_func |-> "progress_func", progress_baton |-> "progress_baton",
     cancel_func |-> "cancel_func", cancel_baton |-> "cancel_baton",
     cancel_at |-> 0],
    [progress_func |-> "progress_func", progress_baton |-> "progress_baton",
     cancel_func |-> "cancel_func", cancel_baton |-> "cancel_baton",
     cancel_at |-> 1],
    [progress_func |-> "NULL", progress_baton |-> "progress_baton",
     cancel_func |-> "cancel_func", cancel_baton |-> "cancel_baton",
     cancel_at |-> 3] }

\* the calls of get_stats checked: any repository with any callbacks, the
\* file that cannot be opened only without callbacks, a pack order and a
\* large page only where the index of a logically addressed file is read,
\* a damaged trailer line only where trailer lines are read
Scenarios ==
  { sc \in [fs : Repositories, cb : Callbacks] :
      /\ sc.fs.fail_open # -1 => sc.cb.cancel_func = "NULL"
      /\ sc.fs.pack_descending =>
           (sc.fs.log_addressing /\ sc.fs.min_unpacked_rev > 0)
      /\ sc.fs.p2l_page_size # PageSize =>
           (sc.fs.log_addressing /\ sc.fs.fail_open = -1)
      /\ sc.fs.p2l_whole_page =>
           (sc.fs.log_addressing /\ sc.fs.fail_open = -1
            /\ sc.fs.p2l_page_size = PageSize)
      /\ sc.fs.damage # "none" =>
           (~sc.fs.log_addressing /\ sc.fs.fail_open = -1
            /\ sc.cb.cancel_func = "NULL") }

-----------------------------------------------------------------------------
(* The representation registry.  Pointers to revision_info_t objects are    *)
(* their revision numbers; a pointer to a rep_stats_t is the object holding *)
(* it and its index in that object's representations array.                 *)

NULL == -1

\* a revision_info_t as apr_pcalloc returns it, with its revision set
NewInfo(revision) ==
  [revision |-> revision, offset |-> 0, changes |-> 0, changes_len |-> 0,
   change_count |-> 0, end |-> 0,
   dir_noderev_count |-> 0, file_noderev_count |-> 0,
   dir_noderev_size |-> 0, file_noderev_size |-> 0,
   representations |-> <<>>, rev_file |-> 0]

compare_representation_offsets(data, key) ==
  IF data.offset < key THEN -1 ELSE (IF data.offset > key THEN 1 ELSE 0)

RECURSIVE BSearchLoop(_, _, _, _)
BSearchLoop(array, key, lower, upper) ==
  IF lower <= upper
    THEN LET try == lower + (upper - lower) \div 2
             cmp == compare_representation_offsets(array[try + 1], key)
         IN IF cmp < 0 THEN BSearchLoop(array, key, try + 1, upper)
                       ELSE BSearchLoop(array, key, lower, try - 1)
    ELSE lower

svn_sort__bsearch_lower_bound(array, key) ==
  BSearchLoop(array, key, 0, Len(array) - 1)

\* APR_ARRAY_IDX(query->revisions, k): the array was made zeroed, with room
\* for head + 1 pointers
ArrayIdx(revisions, k) ==
  IF k + 1 \in DOMAIN revisions THEN revisions[k + 1] ELSE NULL

svn_sort__array_insert(array, elt, idx) ==
  SubSeq(array, 1, idx) \o <<elt>> \o SubSeq(array, idx + 1, Len(array))

\* the search of find_representation in the array of INFO
FindIn_not_first(st, info, offset, idx) ==
  [info |-> info, idx |-> idx,
   found |-> 0 < idx /\ idx < Len(st.infos[info].representations)
             /\ st.infos[info].representations[idx + 1].offset = offset]

FindIn(st, info, offset, idx) ==
  [info |-> info, idx |-> idx,
   found |-> idx < Len(st.infos[info].representations)
             /\ st.infos[info].representations[idx + 1].offset = offset]

FindAt(st, info, offset) ==
  IF info = NULL
    THEN [info |-> NULL, idx |-> -1, found |-> FALSE]
    ELSE FindIn(st, info, offset,
                svn_sort__bsearch_lower_bound(
                  st.infos[info].representations, offset))

\* ST holds the objects reachable from the query; RI is *revision_info
find_representation(st, ri, revision, offset) ==
  FindAt(st,
         IF ri = NULL \/ st.infos[ri].revision # revision
           THEN ArrayIdx(st.revisions, revision) ELSE ri,
         offset)

Failed(st, err) == [st EXCEPT !.err = err]

\* the rep_stats_t parse_representation makes for REP
NewRep(rep, header_size) ==
  [offset |-> rep.item_index,
   size |-> rep.size,
   expanded_size |-> IF rep.expanded_size # 0
                       THEN rep.expanded_size ELSE rep.size,
   revision |-> rep.revision,
   ref_count |-> 0, header_size |-> header_size, kind |-> "unused_rep"]

InsertRep_append(st, f, r) ==
  [st |-> [st EXCEPT !.infos[f.info].representations = Append(@, r)],
   info |-> f.info, idx |-> Len(st.infos[f.info].representations),
   inserted |-> TRUE]

InsertRep(st, f, r) ==
  [st |-> [st EXCEPT !.infos[f.info].representations =
                       svn_sort__array_insert(@, r, f.idx)],
   info |-> f.info, idx |-> f.idx, inserted |-> TRUE]

NoRep(st, err) ==
  [st |-> Failed(st, err), info |-> NULL, idx |-> -1, inserted |-> FALSE]

\* parse_representation behind its call of find_representation, F being
\* what that found
ParseFound(st, ctx, rep, f) ==
  IF f.found
    THEN [st |-> st, info |-> f.info, idx |-> f.idx, inserted |-> FALSE]
  ELSE IF f.info = NULL
    THEN NoRep(st, "crash")
  ELSE IF ~fs.log_addressing
    THEN IF st.infos[f.info].rev_file = 0
           THEN NoRep(st, "assertion")
         ELSE IF ctx.closed /\ ctx.ub = "header"
           THEN NoRep(st, "io")
         ELSE IF rep.item_index \notin fs.revs[rep.revision].reps
           THEN NoRep(st, "corrupt")
         ELSE InsertRep(st, f, NewRep(rep, RepHeaderSize(rep.item_index)))
  ELSE InsertRep(st, f, NewRep(rep, 0))

\* CTX: closed, whether the rev file of the revision being read is closed
\* already; ub, what reading through a closed file does
parse_representation(st, ctx, rep, ri) ==
  Bind(find_representation(st, ri, rep.revision, rep.item_index),
       LAMBDA f : ParseFound(st, ctx, rep, f))

-----------------------------------------------------------------------------
(* The revision parser. *)

TextKind(nr)  == IF nr.kind = "dir" THEN "dir_rep" ELSE "file_rep"
PropsKind(nr) == IF nr.kind = "dir" THEN "dir_property_rep"
                                    ELSE "file_property_rep"

NoPointer == [info |-> NULL, idx |-> -1, inserted |-> FALSE]

Deref(st, p) == st.infos[p.info].representations[p.idx + 1]

AddReference_always_kind(st, p, kind, nr, role) ==
  LET old == Deref(st, p)
      new == [old EXCEPT !.ref_count = @ + 1, !.kind = kind]
  IN [st EXCEPT
        !.infos[p.info].representations[p.idx + 1] = new,
        !.refs = Append(@, [node |-> nr.id, role |-> role,
                            target |-> [rev |-> p.info, offset |-> old.offset]])]

AddReference_kind_on_second(st, p, kind, nr, role) ==
  LET old == Deref(st, p)
      cnt == old.ref_count + 1
      new == [old EXCEPT !.ref_count = cnt,
                         !.kind = IF cnt = 2 THEN kind ELSE @]
  IN [st EXCEPT
        !.infos[p.info].representations[p.idx + 1] = new,
        !.refs = Append(@, [node |-> nr.id, role |-> role,
                            target |-> [rev |-> p.info, offset |-> old.offset]])]

\* if (++rep->ref_count == 1) rep->kind = ...;
AddReference(st, p, kind, nr, role) ==
  LET old == Deref(st, p)
      cnt == old.ref_count + 1
      new == [old EXCEPT !.ref_count = cnt,
                         !.kind = IF cnt = 1 THEN kind ELSE @]
  IN [st EXCEPT
        !.infos[p.info].representations[p.idx + 1] = new,
        !.refs = Append(@, [node |-> nr.id, role |-> role,
                            target |-> [rev |-> p.info, offset |-> old.offset]])]

\* the add_change call of read_noderev for the rep P points to
ChangeCall(rep, p, nr) ==
  [rep_size |-> rep.size, expanded_size |-> rep.expanded_size,
   revision |-> rep.revision, path |-> nr.created_path,
   kind |-> rep.kind, plain_added |-> ~nr.predecessor_id,
   rep |-> [rev |-> p.info, offset |-> rep.offset]]

RecordChange(st, p, nr) ==
  Bind(ChangeCall(Deref(st, p), p, nr), LAMBDA call :
    [st EXCEPT
       !.stats = add_change(@, call.rep_size, call.expanded_size,
                            call.revision, call.path, call.kind,
                            call.plain_added),
       !.changes = Append(@, call)])

CountNoderev_all_files(st, nr, ri) ==
  [st EXCEPT
     !.infos[ri] = [@ EXCEPT !.file_noderev_size = @ + nr.len,
                             !.file_noderev_count = @ + 1],
     !.parsed = Append(@, nr.id)]

\* update stats
CountNoderev(st, nr, ri) ==
  [st EXCEPT
     !.infos[ri] =
        IF nr.kind = "dir"
          THEN [@ EXCEPT !.dir_noderev_size = @ + nr.len,
                         !.dir_noderev_count = @ + 1]
          ELSE [@ EXCEPT !.file_noderev_size = @ + nr.len,
                         !.file_noderev_count = @ + 1],
     !.parsed = Append(@, nr.id)]

RECURSIVE read_noderev(_, _, _, _)
RECURSIVE ParseEntries(_, _, _, _, _)

\* the loop of parse_dir over the entries of the directory NR
ParseEntries(st, ctx, nr, i, ri) ==
  IF i > Len(nr.entries) \/ st.err # "none" THEN st
  ELSE Bind(IF nr.entries[i].rev = st.infos[ri].revision
              THEN IF nr.entries[i].item
                        \in DOMAIN fs.revs[nr.entries[i].rev].noderevs
                     THEN read_noderev(
                            [st EXCEPT !.descents =
                               Append(@, [ev |-> "entry", dir |-> nr.id,
                                          id |-> nr.entries[i],
                                          revision |-> st.infos[ri].revision])],
                            ctx,
                            fs.revs[nr.entries[i].rev].noderevs[
                              nr.entries[i].item],
                            ri)
                     ELSE Failed(st, "corrupt")
              ELSE st,
            LAMBDA s1 : ParseEntries(s1, ctx, nr, i + 1, ri))

parse_dir(st, ctx, nr, ri) == ParseEntries(st, ctx, nr, 1, ri)

\* read_noderev, statement by statement.  T and P are the pointers text
\* and props with the state they were made in.

\* update the stats of the noderev itself
NoderevCount(st, nr, ri) ==
  IF st.err # "none" THEN st ELSE CountNoderev(st, nr, ri)

\* the call of parse_dir as the ghost records it: the directory, its data
\* rep and that rep's ref_count at the call
Descent(st, text, nr) ==
  [st EXCEPT !.descents =
     Append(@, [ev |-> "parse_dir", dir |-> nr.id,
                rep |-> [rev |-> text.info, offset |-> Deref(st, text).offset],
                ref_count |-> Deref(st, text).ref_count])]

NoderevDir_any_addressing(st, text, ctx, nr, ri) ==
  NoderevCount(IF nr.kind = "dir" /\ IsSome(nr.data_rep)
                  /\ Deref(st, text).ref_count = 1
                 THEN parse_dir(Descent(st, text, nr), ctx, nr, ri) ELSE st,
               nr, ri)

\* if this is a directory and has not been processed, yet, read and
\* process it recursively
NoderevDir(st, text, ctx, nr, ri) ==
  NoderevCount(IF nr.kind = "dir" /\ IsSome(nr.data_rep)
                  /\ Deref(st, text).ref_count = 1
                  /\ ~fs.log_addressing
                 THEN parse_dir(Descent(st, text, nr), ctx, nr, ri) ELSE st,
               nr, ri)

\* if (text && text->ref_count == 1) add_change(...)
RecordText(st, text, nr) ==
  IF IsSome(nr.data_rep) /\ Deref(st, text).ref_count = 1
    THEN RecordChange(st, text, nr) ELSE st

\* if (props && props->ref_count == 1) add_change(...)
RecordProps(st, props, nr) ==
  IF IsSome(nr.prop_rep) /\ Deref(st, props).ref_count = 1
    THEN RecordChange(st, props, nr) ELSE st

\* where text points to once props has been inserted into the array
TextPointer(t, p) ==
  [t EXCEPT !.idx = IF p.inserted /\ p.info = t.info /\ p.idx <= t.idx
                      THEN @ + 1 ELSE @]

NoderevChanges(t, p, ctx, nr, ri) ==
  IF p.st.err # "none" THEN p.st
  ELSE Bind(RecordText(p.st, TextPointer(t, p), nr), LAMBDA s1 :
         Bind(RecordProps(s1, p, nr), LAMBDA s2 :
           NoderevDir(s2, TextPointer(t, p), ctx, nr, ri)))

ReferText(t, nr) ==
  IF t.st.err = "none" /\ IsSome(nr.data_rep)
    THEN [t EXCEPT !.st = AddReference(t.st, t, TextKind(nr), nr, "text")]
    ELSE t

ReferProps(p, nr) ==
  IF p.st.err = "none" /\ IsSome(nr.prop_rep)
    THEN [p EXCEPT !.st = AddReference(p.st, p, PropsKind(nr), nr, "props")]
    ELSE p

ParseText(st, ctx, nr, ri) ==
  IF IsSome(nr.data_rep)
    THEN parse_representation(st, ctx, Get(nr.data_rep), ri)
    ELSE [st |-> st] @@ NoPointer

ParseProps(st, ctx, nr, ri) ==
  IF IsSome(nr.prop_rep)
    THEN parse_representation(st, ctx, Get(nr.prop_rep), ri)
    ELSE [st |-> st] @@ NoPointer

NoderevProps(t, ctx, nr, ri) ==
  IF t.st.err # "none" THEN t.st
  ELSE Bind(ParseProps(t.st, ctx, nr, ri), LAMBDA p0 :
         Bind(ReferProps(p0, nr), LAMBDA p :
           NoderevChanges(t, p, ctx, nr, ri)))

\* NR is the noderev svn_fs_fs__read_noderev decodes at the offset given
read_noderev(st, ctx, nr, ri) ==
  Bind(st, LAMBDA s0 :
    Bind(ParseText(s0, ctx, nr, ri), LAMBDA t0 :
      Bind(ReferText(t0, nr), LAMBDA t :
        NoderevProps(t, ctx, nr, ri))))

-----------------------------------------------------------------------------
(* The trailer line of a physically addressed revision.  Bytes are          *)
(* one-character strings; Nul stands for the byte 0.  BUF[k] of the model  *)
(* is buf[k - 1] of the C code.                                             *)

Nul == "NUL"

DigitChars == <<"0", "1", "2", "3", "4", "5", "6", "7", "8", "9">>

IsDigit(c) == \E d \in DOMAIN DigitChars : DigitChars[d] = c

DigitValue(c) == (CHOOSE d \in DOMAIN DigitChars : DigitChars[d] = c) - 1

\* isspace() of the bytes of the model
IsSpace(c) == c \in {" ", Newline}

\* the C string that starts at BUF[from]: the bytes before the next Nul
CString(buf, from) ==
  LET nuls == { k \in from .. Len(buf) : buf[k] = Nul }
      end  == IF nuls = {} THEN Len(buf) + 1
              ELSE CHOOSE k \in nuls : \A j \in nuls : k <= j
  IN SubSeq(buf, from, end - 1)

\* strchr: the first index of C in the C string at BUF[from], 0 for NULL
StrChr(buf, c, from) ==
  LET found == { k \in from .. (from + Len(CString(buf, from)) - 1) :
                   buf[k] = c }
  IN IF found = {} THEN 0
     ELSE CHOOSE k \in found : \A j \in found : k <= j

\* the value of a string of digits
RECURSIVE DecimalValue(_)
DecimalValue(digits) ==
  IF digits = <<>> THEN 0
  ELSE 10 * Bind(SubSeq(digits, 1, Len(digits) - 1), DecimalValue)
       + DigitValue(digits[Len(digits)])

\* svn_cstring_strtoui64(&val, str, 0, APR_SIZE_MAX, 10) on the C string
\* STR: apr_strtoi64 skips white space and converts the digits behind it;
\* no digits, or anything behind them, is an error.  (The bytes of the
\* model hold no sign and no number beyond APR_SIZE_MAX.)
svn_cstring_strtoui64(str) ==
  LET black  == { k \in DOMAIN str : ~IsSpace(str[k]) }
      first  == IF black = {} THEN Len(str) + 1
                ELSE CHOOSE k \in black : \A j \in black : k <= j
      others == { k \in first .. Len(str) : ~IsDigit(str[k]) }
      endptr == IF others = {} THEN Len(str) + 1
                ELSE CHOOSE k \in others : \A j \in others : k <= j
  IN IF endptr = first \/ endptr <= Len(str)
       THEN [err |-> "number", val |-> 0]
       ELSE [err |-> "none",
             val |-> DecimalValue(SubSeq(str, first, endptr - 1))]

\* the values of apr_size_t: the 32 or 64 bits of the build are more than
\* the integers of the checker hold, so that 2^30 stands for 2^32 or 2^64
SizeModulus == 1073741824

\* sizeof(buf) of read_revision_header
HeaderBufSize == 64

Corrupt(msg) == [err |-> "corrupt", msg |-> msg]

\* what a call with an empty FILE_CONTENT may do: buf[-1] is read and
\* written and the rest of buf is never filled
EmptyContentOutcomes ==
  {Corrupt("Revision lacks trailing newline"),
   Corrupt("Final line in revision file longer than 64 characters"),
   Corrupt("Final line in revision file missing space"),
   [err |-> "number", msg |-> "Could not convert"],
   [err |-> "crash", msg |-> ""]}
  \cup { [err |-> "none", msg |-> "", root_noderev |-> r, changes |-> c,
          changes_len |-> (0 - c - l + 1) % SizeModulus] :
            r \in 0 .. 1, c \in 0 .. 1, l \in {2, HeaderBufSize} }

\* read_revision_header behind  space = strchr(line, ' '), BUF being
\* terminated at LEN and at SPACE, LINE the newline before the final line
HeaderNumbers(file_content, buf, len, line, space) ==
  Bind(Bind(CString(buf, line + 1), svn_cstring_strtoui64), LAMBDA root :
    IF root.err # "none" THEN [err |-> "number", msg |-> "Could not convert"]
    ELSE
      Bind(Bind(CString(buf, space + 1), svn_cstring_strtoui64), LAMBDA chg :
        IF chg.err # "none"
          THEN [err |-> "number", msg |-> "Could not convert"]
          ELSE [err |-> "none", msg |-> "",
                root_noderev |-> root.val,
                changes |-> chg.val,
                changes_len |-> (Len(file_content) - chg.val
                                 - (len - (line - 1)) + 1) % SizeModulus]))

\* read_revision_header behind  buf[len - 1] = 0
HeaderLine(file_content, buf, len) ==
  Bind(Bind(CString(buf, 1), LAMBDA s : StrRChr(s, Newline, 1)), LAMBDA line :
    IF line = 0
      THEN Corrupt("Final line in revision file longer than 64 characters")
      ELSE
        Bind(StrChr(buf, " ", line), LAMBDA space :
          IF space = 0
            THEN Corrupt("Final line in revision file missing space")
            ELSE Bind([buf EXCEPT ![space] = Nul], LAMBDA terminated :
                   HeaderNumbers(file_content, terminated, len, line,
                                 space))))

\* what read_revision_header may return for the revision FILE_CONTENT
read_revision_header(file_content) ==
  LET len == IF HeaderBufSize > Len(file_content)
               THEN Len(file_content) ELSE HeaderBufSize
  IN IF len = 0 THEN EmptyContentOutcomes
     ELSE
       Bind(SubSeq(file_content, Len(file_content) - len + 1,
                   Len(file_content)), LAMBDA buf :
         IF buf[len] # Newline
           THEN {Corrupt("Revision lacks trailing newline")}
           ELSE {Bind([buf EXCEPT ![len] = Nul], LAMBDA terminated :
                   HeaderLine(file_content, terminated, len))})

\* the decimal digits of N, as the repository writes them
RECURSIVE Digits(_)
Digits(n) ==
  IF n < 10 THEN <<DigitChars[n + 1]>>
  ELSE Digits(n \div 10) \o <<DigitChars[(n % 10) + 1]>>

\* the trailer line  <root noderev offset> <changes offset>\n
Trailer(root_noderev, changes_offset) ==
  Digits(root_noderev) \o <<" ">> \o Digits(changes_offset) \o <<Newline>>

Filler(n) == [k \in 1 .. n |-> "x"]

\* the bytes of the items of a revision: those of the changed-paths section
\* as they are, any others for the rest
RECURSIVE ItemsData(_, _)
ItemsData(rc, items) ==
  IF items = <<>> THEN <<>>
  ELSE (IF Head(items).type = "changes" THEN rc.changes_text
        ELSE Filler(Head(items).size))
       \o Bind(Tail(items), LAMBDA rest : ItemsData(rc, rest))

\* offset of the changed-paths section, the last of the items
ChangesOffset(rc) == ItemsSize(SubSeq(rc.items, 1, Len(rc.items) - 1))

\* the bytes of a physically addressed revision and what DAMAGE makes of
\* them
RevisionData(rc, damage) ==
  ItemsData(rc, rc.items) \o
  CASE damage = "none" -> Trailer(rc.root, ChangesOffset(rc))
    [] damage = "no_newline" ->
         Digits(rc.root) \o <<" ">> \o Digits(ChangesOffset(rc))
    [] damage = "long_line" ->
         Repeat(<<"0">>, HeaderBufSize) \o Trailer(rc.root, ChangesOffset(rc))
    [] damage = "no_space" ->
         Digits(rc.root) \o Digits(ChangesOffset(rc)) \o <<Newline>>
    [] damage = "beyond" ->
         Trailer(rc.root, ItemsSize(rc.items) + 1)

\* what get_content reads for a revision of the repository FILESYSTEM
RevisionContentOf(filesystem, revision) ==
  RevisionData(filesystem.revs[revision],
               IF revision = DamagedRev THEN filesystem.damage ELSE "none")

\* what reading out of the bounds of the revision may count
OutOfBoundsCounts ==
  {[err |-> "crash", count |-> 0]}
  \cup { [err |-> "none", count |-> n] : n \in 0 .. 1 }

\* get_change_count(rev_content->data + info->changes, info->changes_len)
ChangeCounts(data, hdr) ==
  IF hdr.changes + hdr.changes_len <= Len(data)
    THEN {[err |-> "none",
           count |-> Bind(SubSeq(data, hdr.changes + 1, Len(data)),
                          LAMBDA bytes :
                            get_change_count(bytes, hdr.changes_len))]}
    ELSE OutOfBoundsCounts

-----------------------------------------------------------------------------
(* Aggregation. *)

add_rep_pack_stats(ps, rep) ==
  [count         |-> ps.count + 1,
   packed_size   |-> ps.packed_size + rep.size,
   expanded_size |-> ps.expanded_size + rep.expanded_size,
   overhead_size |-> ps.overhead_size + rep.header_size + EndrepLen]

add_rep_stats_all_unique(rs, rep) ==
  [total   |-> add_rep_pack_stats(rs.total, rep),
   uniques |-> add_rep_pack_stats(rs.uniques, rep),
   shared  |-> rs.shared,
   references    |-> rs.references + rep.ref_count,
   expanded_size |-> rs.expanded_size + rep.ref_count * rep.expanded_size]

add_rep_stats(rs, rep) ==
  [total   |-> add_rep_pack_stats(rs.total, rep),
   uniques |-> IF rep.ref_count = 1
                 THEN add_rep_pack_stats(rs.uniques, rep) ELSE rs.uniques,
   shared  |-> IF rep.ref_count = 1
                 THEN rs.shared ELSE add_rep_pack_stats(rs.shared, rep),
   references    |-> rs.references + rep.ref_count,
   expanded_size |-> rs.expanded_size + rep.ref_count * rep.expanded_size]

AggregateRep_two_buckets(st, rep) ==
  LET s1 == CASE rep.kind = "file_rep" ->
                   [st EXCEPT !.file_rep_stats = add_rep_stats(@, rep)]
              [] rep.kind = "dir_rep" ->
                   [st EXCEPT !.dir_rep_stats = add_rep_stats(@, rep)]
              [] rep.kind = "file_property_rep" ->
                   [st EXCEPT !.file_prop_rep_stats = add_rep_stats(@, rep)]
              [] rep.kind = "dir_property_rep" ->
                   [st EXCEPT !.dir_prop_rep_stats = add_rep_stats(@, rep),
                              !.file_prop_rep_stats = add_rep_stats(@, rep)]
              [] OTHER -> st
  IN [s1 EXCEPT !.total_rep_stats = add_rep_stats(@, rep)]

\* the switch on rep->kind and the add to total_rep_stats
AggregateRep(st, rep) ==
  LET s1 == CASE rep.kind = "file_rep" ->
                   [st EXCEPT !.file_rep_stats = add_rep_stats(@, rep)]
              [] rep.kind = "dir_rep" ->
                   [st EXCEPT !.dir_rep_stats = add_rep_stats(@, rep)]
              [] rep.kind = "file_property_rep" ->
                   [st EXCEPT !.file_prop_rep_stats = add_rep_stats(@, rep)]
              [] rep.kind = "dir_property_rep" ->
                   [st EXCEPT !.dir_prop_rep_stats = add_rep_stats(@, rep)]
              [] OTHER -> st
  IN [s1 EXCEPT !.total_rep_stats = add_rep_stats(@, rep)]

RECURSIVE AggregateReps(_, _, _)
AggregateReps(st, reps, k) ==
  IF k > Len(reps) THEN st
  ELSE AggregateReps(AggregateRep(st, reps[k]), reps, k + 1)

AggregateRevision_end_only(st, revision) ==
  LET s1 == [st EXCEPT
               !.change_count = @ + revision.change_count,
               !.change_len = @ + revision.changes_len,
               !.total_size = @ + revision.end,
               !.dir_node_stats =
                  [count |-> @.count + revision.dir_noderev_count,
                   size  |-> @.size + revision.dir_noderev_size],
               !.file_node_stats =
                  [count |-> @.count + revision.file_noderev_count,
                   size  |-> @.size + revision.file_noderev_size],
               !.total_node_stats =
                  [count |-> @.count + revision.dir_noderev_count
                                     + revision.file_noderev_count,
                   size  |-> @.size + revision.dir_noderev_size
                                    + revision.file_noderev_size]]
  IN AggregateReps(s1, revision.representations, 1)

AggregateRevision(st, revision) ==
  LET s1 == [st EXCEPT
               !.change_count = @ + revision.change_count,
               !.change_len = @ + revision.changes_len,
               !.total_size = @ + revision.end - revision.offset,
               !.dir_node_stats =
                  [count |-> @.count + revision.dir_noderev_count,
                   size  |-> @.size + revision.dir_noderev_size],
               !.file_node_stats =
                  [count |-> @.count + revision.file_noderev_count,
                   size  |-> @.size + revision.file_noderev_size],
               !.total_node_stats =
                  [count |-> @.count + revision.dir_noderev_count
                                     + revision.file_noderev_count,
                   size  |-> @.size + revision.dir_noderev_size
                                    + revision.file_noderev_size]]
  IN AggregateReps(s1, revision.representations, 1)

RECURSIVE AggregateRevisions(_, _, _, _)
AggregateRevisions(st, revisions, heap, i) ==
  IF i > Len(revisions) THEN st
  ELSE AggregateRevisions(AggregateRevision(st, heap[revisions[i]]),
                          revisions, heap, i + 1)

\* REVISIONS holds pointers into HEAP
aggregate_stats(revisions, heap, st) ==
  AggregateRevisions([st EXCEPT !.revision_count = Len(revisions)],
                     revisions, heap, 1)

-----------------------------------------------------------------------------
(* The drivers.  Every handler is one action; get_stats runs from          *)
(* pc = "idle" to pc = "returned".                                          *)

NoLoop ==
  [revision |-> 0, base |-> 0, count |-> 0, packed |-> FALSE, i |-> 0,
   rev_file |-> 0, file_size |-> 0, offset |-> 0, max_offset |-> 0]

\* the query_t create_query makes; svn_fs_fs__youngest_rev and
\* svn_fs_fs__min_unpacked_rev answer from the repository
create_query(filesystem, progress_func, progress_baton, cancel_func, cancel_baton) ==
  [shard_size |-> filesystem.shard_size,
   head |-> filesystem.head,
   min_unpacked_rev |-> filesystem.min_unpacked_rev,
   revisions |-> <<>>,
   progress_func |-> progress_func,
   progress_baton |-> progress_baton,
   cancel_func |-> cancel_func,
   cancel_baton |-> cancel_baton]

\* the objects read_noderev and its callees change
St ==
  [infos |-> infos, revisions |-> query.revisions, stats |-> stats,
   err |-> "none", refs |-> refs, parsed |-> parsed, changes |-> changes,
   descents |-> descents]

Store(st) ==
  /\ infos' = st.infos
  /\ stats' = st.stats
  /\ refs' = st.refs
  /\ parsed' = st.parsed
  /\ changes' = st.changes
  /\ descents' = st.descents
  /\ query' = [query EXCEPT !.revisions = st.revisions]

\* SVN_ERR(...) of an error up to the caller of svn_fs_fs__get_stats
Return(err) ==
  /\ pc' = "returned"
  /\ ret' = [ret EXCEPT !.err = err]
  /\ results' = Append(results, [err |-> err, stats |-> stats'])

Event(ev, rev, arg) == [ev |-> ev, rev |-> rev, arg |-> arg]

CancelCount(log) == Cardinality({k \in DOMAIN log : log[k].ev = "cancel"})

\* the answer of the caller's cancel function to its next call
PollFires(log) == cb.cancel_at # 0 /\ CancelCount(log) + 1 >= cb.cancel_at

\* if (query->cancel_func) SVN_ERR(query->cancel_func(query->cancel_baton))
Polled(log, rev) ==
  IF query.cancel_func # "NULL"
    THEN Append(log, Event("cancel", rev,
                           IF PollFires(log) THEN "cancelled" ELSE "continue"))
    ELSE log

IsCancelled_ignored(log) == FALSE

IsCancelled(log) == query.cancel_func # "NULL" /\ PollFires(log)

\* query->progress_func(revision, query->progress_baton, pool)
Progressed(log, rev) ==
  IF query.progress_func # "NULL"
    THEN Append(log, Event("progress", rev, query.progress_baton))
    ELSE log

RevisionProgressed_every(log, revision) == Progressed(log, revision)

\* "show progress every 1000 revs or so"
RevisionProgressed(log, revision) ==
  IF (query.shard_size # 0 /\ revision % query.shard_size = 0)
     \/ (query.shard_size = 0 /\ revision % ProgressInterval = 0)
    THEN Progressed(log, revision)
    ELSE log

OpenHandle(base) == [base |-> base, state |-> "open"]

get_content(revision) == RevisionContentOf(fs, revision)

\* bytes a physically addressed revision takes in its file
PhysRevisionSize(r) == Len(get_content(r))

\* svn_fs_fs__get_packed_offset
PackedOffset(base, r) ==
  SumSeq([k \in 1 .. (r - base) |-> PhysRevisionSize(base + k - 1)])

\* what reading through a closed revision file may do: work as before,
\* or fail reading the revision, or fail reading a representation header
ClosedFileOutcomes == {"ok", "content", "header"}

GetStatsBody ==
  /\ stats' = create_stats
  /\ ret' = [stats_set |-> TRUE, err |-> "none"]
  /\ query' = create_query(fs, cb.progress_func, cb.progress_func,
                           cb.cancel_func, cb.cancel_baton)
  /\ infos' = <<>>
  /\ loop' = NoLoop
  /\ handles' = <<>>
  /\ events' = <<>>
  /\ refs' = <<>>
  /\ parsed' = <<>>
  /\ changes' = <<>>
  /\ descents' = <<>>
  /\ pc' = "read_revisions"
  /\ UNCHANGED <<fs, cb, results, histVars, countVars,
                 headerVars, clientVars>>

\* svn_fs_fs__get_stats up to its call of read_revisions
GetStats ==
  /\ pc = "idle"
  /\ GetStatsBody

\* a second call with the same arguments after the first has returned
GetStatsAgain ==
  /\ pc = "returned"
  /\ Len(results) < 2
  /\ GetStatsBody

Advance_one_more(revision, count) == revision + count + 1

\* revision += shard_size  and  ++revision  of the loops of read_revisions:
\* the revision behind the file of COUNT revisions that starts at REVISION
Advance(revision, count) == revision + count

\* the revision_info_t of a physically addressed revision before its
\* noderevs are read, H being its rev file
PhysInfo(revision, h, offset, end) ==
  [NewInfo(revision) EXCEPT !.rev_file = h, !.offset = offset, !.end = end]

\* read_revision_header having returned HDR and get_change_count COUNT:
\* read_noderev of the root noderev of the revision
ReadRoot(revision, info, ctx, hdr, count) ==
  IF hdr.err # "none"
    THEN Failed([St EXCEPT !.infos = Extend(@, revision, info)], hdr.err)
  ELSE IF count.err # "none"
    THEN Failed([St EXCEPT !.infos = Extend(@, revision, info)], count.err)
  ELSE IF hdr.root_noderev \notin DOMAIN fs.revs[revision].noderevs
    THEN Failed([St EXCEPT !.infos = Extend(@, revision, info)], "corrupt")
  ELSE read_noderev(
         [St EXCEPT !.infos =
            Extend(@, revision,
                   [info EXCEPT !.changes = hdr.changes,
                                !.changes_len = hdr.changes_len,
                                !.change_count = count.count])],
         ctx, fs.revs[revision].noderevs[hdr.root_noderev], revision)

\* the header of the revision and the count of its changes, as the
\* drivers get them
HeaderOf(revision) == Bind(get_content(revision), read_revision_header)

CountsOf(revision, hdr) ==
  IF hdr.err # "none" THEN {[err |-> "none", count |-> 0]}
  ELSE Bind(get_content(revision), LAMBDA data : ChangeCounts(data, hdr))

\* read_phys_revision_file, ST1 being what read_noderev leaves
PhysRevisionOutcome(revision, h, st1) ==
  IF IsCancelled(events)
    THEN /\ events' = Polled(events, revision)
         /\ Store(St)
         /\ Return("cancelled")
         /\ UNCHANGED <<handles, loop>>
  ELSE IF fs.fail_open = revision
    THEN /\ events' = Polled(events, revision)
         /\ Store(St)
         /\ Return("io")
         /\ UNCHANGED <<handles, loop>>
  ELSE IF st1.err # "none"
    THEN /\ events' = Polled(events, revision)
                        \o <<Event("open", revision, h),
                             Event("read", revision, "open")>>
         /\ handles' = Append(handles, OpenHandle(revision))
         /\ Store(st1)
         /\ Return(st1.err)
         /\ UNCHANGED loop
  ELSE /\ events' = RevisionProgressed(
                      Polled(events, revision)
                        \o <<Event("open", revision, h),
                             Event("read", revision, "open"),
                             Event("close", revision, h)>>,
                      revision)
       /\ handles' = Append(handles, [OpenHandle(revision) EXCEPT
                                        !.state = "closed"])
       /\ Store([st1 EXCEPT
                   !.infos[revision].rev_file = 0,
                   !.revisions = Append(@, revision)])
       /\ loop' = [loop EXCEPT !.revision = Advance(@, 1)]
       /\ UNCHANGED <<pc, ret, results>>

ReadPhysRevisionFile ==
  /\ pc = "read_revisions"
  /\ ~fs.log_addressing
  /\ loop.revision >= query.min_unpacked_rev
  /\ loop.revision <= query.head
  /\ \E hdr \in HeaderOf(loop.revision) :
       \E count \in CountsOf(loop.revision, hdr) :
         \E st1 \in {ReadRoot(loop.revision,
                              PhysInfo(loop.revision, Len(handles) + 1, 0,
                                       PhysRevisionSize(loop.revision)),
                              [closed |-> FALSE, ub |-> "ok"], hdr, count)} :
           PhysRevisionOutcome(loop.revision, Len(handles) + 1, st1)
  /\ UNCHANGED <<fs, cb, histVars, countVars,
                 headerVars, clientVars>>

\* read_phys_pack_file up to its loop
PhysPackOpen ==
  /\ pc = "read_revisions"
  /\ ~fs.log_addressing
  /\ loop.revision < query.min_unpacked_rev
  /\ LET base == loop.revision
         h == Len(handles) + 1
     IN \E file_size \in {PackedOffset(base, base + query.shard_size)} :
        IF fs.fail_open = base
          THEN /\ Store(St)
               /\ Return("io")
               /\ UNCHANGED <<handles, loop, events>>
          ELSE /\ handles' = Append(handles, OpenHandle(base))
               /\ events' = Append(events, Event("open", base, h))
               /\ loop' = [loop EXCEPT
                             !.base = base, !.i = 0, !.rev_file = h,
                             !.packed = TRUE, !.count = query.shard_size,
                             !.file_size = file_size]
               /\ pc' = "phys_pack"
               /\ UNCHANGED <<infos, stats, refs, parsed, changes, descents,
                              query,
                              ret, results>>
  /\ UNCHANGED <<fs, cb, histVars, countVars,
                 headerVars, clientVars>>

\* one round of the loop of read_phys_pack_file, ST1 being what
\* read_noderev leaves
PhysPackOutcome(revision, h, closed, ub, st1) ==
  IF IsCancelled(events)
    THEN /\ events' = Polled(events, revision)
         /\ Store(St)
         /\ Return("cancelled")
         /\ UNCHANGED <<handles, loop>>
  ELSE IF closed /\ ub = "content"
    THEN /\ events' = Append(Polled(events, revision),
                             Event("read", revision, handles[h].state))
         /\ Store(St)
         /\ Return("io")
         /\ UNCHANGED <<handles, loop>>
  ELSE IF st1.err # "none"
    THEN /\ events' = Append(Polled(events, revision),
                             Event("read", revision, handles[h].state))
         /\ Store(st1)
         /\ Return(st1.err)
         /\ UNCHANGED <<handles, loop>>
  ELSE /\ events' = Polled(events, revision)
                      \o <<Event("read", revision, handles[h].state),
                           Event("close", revision, h)>>
       /\ handles' = [handles EXCEPT ![h].state = "closed"]
       /\ Store([st1 EXCEPT
                   !.infos[revision].rev_file = 0,
                   !.revisions = Append(@, revision)])
       /\ loop' = [loop EXCEPT !.i = @ + 1]
       /\ UNCHANGED <<pc, ret, results>>

PhysPackRevision ==
  /\ pc = "phys_pack"
  /\ loop.i < query.shard_size
  /\ \E ub \in ClosedFileOutcomes :
       \E hdr \in HeaderOf(loop.base + loop.i) :
         \E count \in CountsOf(loop.base + loop.i, hdr) :
           \E st1 \in {ReadRoot(
                          loop.base + loop.i,
                          PhysInfo(loop.base + loop.i, loop.rev_file,
                                   PackedOffset(loop.base, loop.base + loop.i),
                                   IF loop.i + 1 = query.shard_size
                                     THEN loop.file_size
                                     ELSE PackedOffset(loop.base,
                                                       loop.base + loop.i + 1)),
                          [closed |-> handles[loop.rev_file].state = "closed",
                           ub |-> ub], hdr, count)} :
             PhysPackOutcome(loop.base + loop.i, loop.rev_file,
                             handles[loop.rev_file].state = "closed", ub, st1)
  /\ UNCHANGED <<fs, cb, histVars, countVars,
                 headerVars, clientVars>>

\* read_phys_pack_file behind its loop
PhysPackDone ==
  /\ pc = "phys_pack"
  /\ loop.i >= query.shard_size
  /\ events' = Progressed(events, loop.base)
  /\ loop' = [loop EXCEPT !.revision = Advance(@, query.shard_size)]
  /\ pc' = "read_revisions"
  /\ UNCHANGED <<fs, cb, query, infos, stats, ret, handles, refs, parsed,
                 changes, descents, results, histVars, countVars,
                 headerVars, clientVars>>

\* the revisions of the rev or pack file starting at BASE, in the order the
\* file holds their items
RECURSIVE FileRevisions(_, _)
FileRevisions(base, count) ==
  IF count = 0 THEN <<>>
  ELSE IF fs.pack_descending
    THEN <<base + count - 1>> \o FileRevisions(base, count - 1)
    ELSE <<base>> \o FileRevisions(base + 1, count - 1)

RECURSIVE FileItems(_)
FileItems(revs) ==
  IF revs = <<>> THEN <<>>
  ELSE fs.revs[Head(revs)].items \o FileItems(Tail(revs))

\* the phys-to-log index of the file: svn_fs_fs__p2l_entry_t per item
P2LEntries(base, count) ==
  Bind(FileItems(FileRevisions(base, count)), LAMBDA items :
    [k \in DOMAIN items |->
       [offset |-> ItemsSize(SubSeq(items, 1, k - 1)),
        size |-> items[k].size, type |-> items[k].type,
        item |-> items[k].item]])

svn_fs_fs__p2l_get_max_offset(base, count) ==
  ItemsSize(FileItems(FileRevisions(base, count)))

\* the entries of ALL that overlap the bytes from BLOCK_START up to
\* BLOCK_END
Overlapping(all, block_start, block_end) ==
  SelectSeq(all, LAMBDA e : /\ e.offset < block_end
                            /\ \/ e.offset + e.size > block_start
                               \/ e.offset >= block_start)

\* the entries that overlap the block of BLOCK_SIZE bytes at BLOCK_START,
\* or those that overlap the index page BLOCK_START lies in
svn_fs_fs__p2l_index_lookup(base, count, block_start, block_size) ==
  IF fs.p2l_whole_page
    THEN Overlapping(P2LEntries(base, count),
                     (block_start \div block_size) * block_size,
                     (block_start \div block_size) * block_size + block_size)
    ELSE Overlapping(P2LEntries(base, count), block_start,
                     block_start + block_size)

ProcessEntry_no_skip(w, entry, i, start, info) ==
  IF entry.size = 0 THEN w
  ELSE IF entry.type = "noderev"
    THEN [st |-> Bind(fs.revs[entry.item.revision].noderevs[
                        entry.item.number],
                      LAMBDA nr :
                        read_noderev(w.st, [closed |-> FALSE, ub |-> "ok"],
                                     nr, info)),
          offset |-> w.offset + entry.size]
  ELSE IF entry.type = "changes"
    THEN [st |-> [w.st EXCEPT
                    !.infos[info].change_count =
                       get_change_count(
                         fs.revs[entry.item.revision].changes_text,
                         entry.size),
                    !.infos[info].changes_len = @ + entry.size],
          offset |-> w.offset + entry.size]
  ELSE [w EXCEPT !.offset = @ + entry.size]

ProcessEntry_skip_advances(w, entry, i, start, info) ==
  IF i = 0 /\ entry.offset < start
    THEN [w EXCEPT !.offset = @ + entry.size]
  ELSE IF entry.size = 0 THEN w
  ELSE IF entry.type = "noderev"
    THEN [st |-> Bind(fs.revs[entry.item.revision].noderevs[
                        entry.item.number],
                      LAMBDA nr :
                        read_noderev(w.st, [closed |-> FALSE, ub |-> "ok"],
                                     nr, info)),
          offset |-> w.offset + entry.size]
  ELSE IF entry.type = "changes"
    THEN [st |-> [w.st EXCEPT
                    !.infos[info].change_count =
                       get_change_count(
                         fs.revs[entry.item.revision].changes_text,
                         entry.size),
                    !.infos[info].changes_len = @ + entry.size],
          offset |-> w.offset + entry.size]
  ELSE [w EXCEPT !.offset = @ + entry.size]

\* the body of the loop over the entries of a block; W is the state with
\* the walk's offset, INFO the revision_info_t of the entry's revision
ProcessEntry(w, entry, i, start, info) ==
  IF i = 0 /\ entry.offset < start THEN w
  ELSE IF entry.size = 0 THEN w
  ELSE IF entry.type = "noderev"
    THEN [st |-> Bind(fs.revs[entry.item.revision].noderevs[
                        entry.item.number],
                      LAMBDA nr :
                        read_noderev(w.st, [closed |-> FALSE, ub |-> "ok"],
                                     nr, info)),
          offset |-> w.offset + entry.size]
  ELSE IF entry.type = "changes"
    THEN [st |-> [w.st EXCEPT
                    !.infos[info].change_count =
                       get_change_count(
                         fs.revs[entry.item.revision].changes_text,
                         entry.size),
                    !.infos[info].changes_len = @ + entry.size],
          offset |-> w.offset + entry.size]
  ELSE [w EXCEPT !.offset = @ + entry.size]

RECURSIVE ProcessEntries_backwards(_, _, _, _)
ProcessEntries_backwards(w, entries, i, start) ==
  IF i >= Len(entries) \/ w.st.err # "none" THEN w
  ELSE ProcessEntries_backwards(
         ProcessEntry(w, entries[Len(entries) - i], Len(entries) - 1 - i,
                      start,
                      ArrayIdx(w.st.revisions,
                               entries[Len(entries) - i].item.revision)),
         entries, i + 1, start)

RECURSIVE ProcessEntries(_, _, _, _)
ProcessEntries(w, entries, i, start) ==
  IF i >= Len(entries) \/ w.st.err # "none" THEN w
  ELSE Bind(ProcessEntry(w, entries[i + 1], i, start,
                         ArrayIdx(w.st.revisions,
                                  entries[i + 1].item.revision)),
            LAMBDA w2 : ProcessEntries(w2, entries, i + 1, start))

RECURSIVE PushInfos(_, _, _)
PushInfos(st, base, count) ==
  IF count = 0 THEN st
  ELSE Bind([st EXCEPT !.infos = Extend(@, base, NewInfo(base)),
                       !.revisions = Append(@, base)],
            LAMBDA pushed : PushInfos(pushed, base + 1, count - 1))

\* read_log_pack_file and read_log_revision_file calling
\* read_log_rev_or_packfile, up to its loop over the blocks
LogOpen ==
  /\ pc = "read_revisions"
  /\ fs.log_addressing
  /\ loop.revision <= query.head
  /\ LET base == loop.revision
         packed == base < query.min_unpacked_rev
         count == IF packed THEN query.shard_size ELSE 1
         h == Len(handles) + 1
     IN \E st0 \in {PushInfos(St, base, count)} :
        \E max_offset \in {svn_fs_fs__p2l_get_max_offset(base, count)} :
        IF fs.fail_open = base
          THEN /\ Store(st0)
               /\ Return("io")
               /\ UNCHANGED <<handles, loop, events>>
          ELSE /\ handles' = Append(handles, OpenHandle(base))
               /\ events' = Append(events, Event("open", base, h))
               /\ Store([st0 EXCEPT
                           !.infos[ArrayIdx(st0.revisions, base)].end =
                              max_offset])
               /\ loop' = [loop EXCEPT
                             !.base = base, !.count = count,
                             !.packed = packed, !.rev_file = h,
                             !.offset = 0, !.max_offset = max_offset]
               /\ pc' = "log_walk"
               /\ UNCHANGED <<ret, results>>
  /\ UNCHANGED <<fs, cb, histVars, countVars,
                 headerVars, clientVars>>

\* one round of the loop over the blocks of the file, W being what the
\* loop over the entries leaves
LogBlockOutcome(w) ==
  IF IsCancelled(events)
    THEN /\ events' = Polled(events, loop.base)
         /\ Store(St)
         /\ Return("cancelled")
         /\ UNCHANGED loop
  ELSE IF w.st.err # "none"
    THEN /\ events' = Polled(events, loop.base)
         /\ Store(w.st)
         /\ Return(w.st.err)
         /\ UNCHANGED loop
  ELSE /\ events' = Append(Polled(events, loop.base),
                           Event("read", loop.base,
                                 handles[loop.rev_file].state))
       /\ Store(w.st)
       /\ loop' = [loop EXCEPT !.offset = w.offset]
       /\ UNCHANGED <<pc, ret, results>>

LogBlock ==
  /\ pc = "log_walk"
  /\ loop.offset < loop.max_offset
  /\ \E entries \in {svn_fs_fs__p2l_index_lookup(loop.base, loop.count,
                                                  loop.offset,
                                                  fs.p2l_page_size)} :
       \E w \in {ProcessEntries([st |-> St, offset |-> loop.offset],
                                entries, 0, loop.offset)} :
         LogBlockOutcome(w)
  /\ UNCHANGED <<fs, cb, handles, histVars, countVars,
                 headerVars, clientVars>>

\* read_log_rev_or_packfile behind its loop, and the progress report of
\* its caller
LogDone ==
  /\ pc = "log_walk"
  /\ loop.offset >= loop.max_offset
  /\ handles' = [handles EXCEPT ![loop.rev_file].state = "closed"]
  /\ events' =
       LET closed == Append(events, Event("close", loop.base, loop.rev_file))
       IN IF loop.packed THEN Progressed(closed, loop.base)
                         ELSE RevisionProgressed(closed, loop.base)
  /\ loop' = [loop EXCEPT !.revision = Advance(@, loop.count)]
  /\ pc' = "read_revisions"
  /\ UNCHANGED <<fs, cb, query, infos, stats, ret, refs, parsed, changes,
                 descents, results, histVars, countVars,
                 headerVars, clientVars>>

\* read_revisions behind its loops, and svn_fs_fs__get_stats behind it
AggregateStats ==
  /\ pc = "read_revisions"
  /\ loop.revision >= query.min_unpacked_rev
  /\ loop.revision > query.head
  /\ stats' = aggregate_stats(query.revisions, infos, stats)
  /\ pc' = "returned"
  /\ results' = Append(results, [err |-> "none", stats |-> stats'])
  /\ UNCHANGED <<fs, cb, query, infos, ret, loop, handles, events, refs,
                 parsed, changes, descents, histVars, countVars,
                 headerVars, clientVars>>

-----------------------------------------------------------------------------
(* Mergeinfo of a working copy (libsvn_client/mergeinfo.c).  A path is the  *)
(* sequence of its components, the root directory the empty one.  A        *)
(* mergeinfo is a function from merge-source paths to rangelists.  A       *)
(* pointer that may be NULL is None or Opt of what it points to.           *)

svn_dirent_is_root(path) == path = <<>>

svn_dirent_basename(path) == <<path[Len(path)]>>

svn_dirent_dirname(path) == SubSeq(path, 1, Len(path) - 1)

svn_relpath_join(base, component) == base \o component

svn_uri_join(base, component) == base \o component

svn_path_is_empty(path) == path = <<>>

SVN_IS_VALID_REVNUM(n) == n >= 0

apr_hash_make == [merge_source \in {} |-> <<>>]

apr_hash_count(ht) == Cardinality(DOMAIN ht)

\* the loop of svn_client__adjust_mergeinfo_source_paths over the merge
\* sources of MERGEINFO that are still to come
RECURSIVE AdjustSources(_, _, _, _)
AdjustSources(adjusted_mergeinfo, rel_path, mergeinfo, sources) ==
  IF sources = {} THEN adjusted_mergeinfo
  ELSE
    Bind(CHOOSE merge_source \in sources : TRUE, LAMBDA merge_source :
      Bind(Extend(adjusted_mergeinfo, svn_uri_join(merge_source, rel_path),
                  mergeinfo[merge_source]), LAMBDA set :
        AdjustSources(set, rel_path, mergeinfo, sources \ {merge_source})))

adjust_mergeinfo_source_paths_none(adjusted_mergeinfo, rel_path, mergeinfo) ==
  mergeinfo

\* the hash ADJUSTED_MERGEINFO points to when the function returns
svn_client__adjust_mergeinfo_source_paths(adjusted_mergeinfo, rel_path, mergeinfo) ==
  AdjustSources(adjusted_mergeinfo, rel_path, mergeinfo, DOMAIN mergeinfo)

\* svn_mergeinfo_parse: a property value is the lines  source:ranges
RECURSIVE ParseLines(_, _)
ParseLines(mergeinfo, lines) ==
  IF lines = <<>> THEN mergeinfo
  ELSE Bind(Extend(mergeinfo, Head(lines).source, Head(lines).rangelist),
            LAMBDA set : ParseLines(set, Tail(lines)))

svn_mergeinfo_parse(propval) ==
  IF propval.valid
    THEN [err |-> "none", mergeinfo |-> Opt(ParseLines(apr_hash_make, propval.lines))]
    ELSE [err |-> "parse", mergeinfo |-> None]

\* svn_client__parse_mergeinfo, PROPVAL being what svn_wc_prop_get2 gives
svn_client__parse_mergeinfo(propval) ==
  IF IsSome(propval) THEN svn_mergeinfo_parse(Get(propval))
  ELSE [err |-> "none", mergeinfo |-> None]

\* svn_mergeinfo_inheritable for every path and revision
svn_mergeinfo_inheritable(mergeinfo) ==
  [merge_source \in DOMAIN mergeinfo |->
     SelectSeq(mergeinfo[merge_source], LAMBDA range : range.inheritable)]

svn_mergeinfo__remove_empty_rangelists(mergeinfo) ==
  [merge_source \in { x \in DOMAIN mergeinfo : mergeinfo[x] # <<>> } |->
     mergeinfo[merge_source]]

\* the node of the working copy at PATH, a path from the root to the path
\* get_wc_mergeinfo is called for
NodeAt(path) == wc.nodes[Len(path)]

AtLimit_never(limit_abspath, local_abspath) == FALSE

\* limit_abspath && strcmp(limit_abspath, local_abspath) == 0
AtLimit(limit_abspath, local_abspath) ==
  IsSome(limit_abspath) /\ Get(limit_abspath) = local_abspath

LoopLeft(w) == [w EXCEPT !.pc = "walked"]

\* the loop of svn_client__get_wc_mergeinfo behind
\*   local_abspath = svn_dirent_dirname(local_abspath, scratch_pool)
ParentRevisions(w) ==
  IF /\ SVN_IS_VALID_REVNUM(w.base_revision)
     /\ \/ w.base_revision < NodeAt(w.local_abspath).changed_rev
        \/ NodeAt(w.local_abspath).base_rev < w.base_revision
    THEN LoopLeft(w)
    ELSE w

\* the loop of svn_client__get_wc_mergeinfo behind the look for mergeinfo
\* on local_abspath
WalkUp(w) ==
  IF /\ ~IsSome(w.wc_mergeinfo)
     /\ w.inherit # "explicit"
     /\ ~svn_dirent_is_root(w.local_abspath)
    THEN IF AtLimit(wc.limit_abspath, w.local_abspath) THEN LoopLeft(w)
         ELSE IF NodeAt(w.local_abspath).is_wc_root
           THEN LoopLeft([w EXCEPT !.examined = Append(@, w.local_abspath)])
         ELSE Bind([w EXCEPT
                      !.walk_relpath =
                         svn_relpath_join(
                           svn_dirent_basename(w.local_abspath), @),
                      !.local_abspath = svn_dirent_dirname(@),
                      !.examined = @ \o <<w.local_abspath,
                                          svn_dirent_dirname(w.local_abspath)>>],
                   ParentRevisions)
    ELSE LoopLeft(w)

\* one round of the loop of svn_client__get_wc_mergeinfo
WalkRound(w) ==
  IF w.inherit = "nearest_ancestor"
    THEN Bind([w EXCEPT !.wc_mergeinfo = None, !.inherit = "inherited"],
              WalkUp)
    ELSE
      Bind(svn_client__parse_mergeinfo(NodeAt(w.local_abspath).propval),
           LAMBDA read :
        IF read.err # "none"
          THEN [w EXCEPT !.reads = Append(@, w.local_abspath),
                         !.pc = "returned", !.err = read.err]
          ELSE Bind([w EXCEPT !.reads = Append(@, w.local_abspath),
                              !.wc_mergeinfo = read.mergeinfo],
                    WalkUp))

\* svn_client__get_wc_mergeinfo behind its loop
WalkResult(w) ==
  IF svn_path_is_empty(w.walk_relpath)
    THEN [w EXCEPT !.pc = "returned", !.inherited = FALSE,
                   !.mergeinfo = w.wc_mergeinfo,
                   !.walked_path = w.walk_relpath]
  ELSE IF IsSome(w.wc_mergeinfo)
    THEN [w EXCEPT
            !.pc = "returned", !.inherited = TRUE,
            !.mergeinfo =
               Opt(svn_mergeinfo__remove_empty_rangelists(
                     svn_mergeinfo_inheritable(
                       svn_client__adjust_mergeinfo_source_paths(
                         apr_hash_make, w.walk_relpath,
                         Get(w.wc_mergeinfo))))),
            !.walked_path = w.walk_relpath]
  ELSE [w EXCEPT !.pc = "returned", !.inherited = FALSE,
                 !.mergeinfo = None,
                 !.walked_path = w.walk_relpath]

\* svn_mergeinfo__equals: the same merge sources with the same ranges,
\* their inheritability included if CONSIDER_INHERITANCE
svn_mergeinfo__equals(info1, info2, consider_inheritance) ==
  /\ apr_hash_count(info1) = apr_hash_count(info2)
  /\ DOMAIN info1 = DOMAIN info2
  /\ \A merge_source \in DOMAIN info1 :
       /\ Len(info1[merge_source]) = Len(info2[merge_source])
       /\ \A k \in DOMAIN info1[merge_source] :
            /\ info1[merge_source][k].start = info2[merge_source][k].start
            /\ info1[merge_source][k].end = info2[merge_source][k].end
            /\ consider_inheritance =>
                 info1[merge_source][k].inheritable
                   = info2[merge_source][k].inheritable

\* *elides and the hash PARENT_MERGEINFO points to when the function
\* returns
should_elide_mergeinfo(parent_mergeinfo, child_mergeinfo, path_suffix) ==
  [parent_mergeinfo |-> parent_mergeinfo,
   elides |->
     IF ~IsSome(child_mergeinfo) THEN FALSE
     ELSE IF apr_hash_count(Get(child_mergeinfo)) = 0
       THEN \/ ~IsSome(parent_mergeinfo)
            \/ apr_hash_count(Get(parent_mergeinfo)) = 0
     ELSE IF \/ ~IsSome(parent_mergeinfo)
             \/ apr_hash_count(Get(parent_mergeinfo)) = 0
       THEN FALSE
     ELSE
       Bind(IF IsSome(path_suffix)
              THEN svn_client__adjust_mergeinfo_source_paths(
                     apr_hash_make, Get(path_suffix), Get(parent_mergeinfo))
              ELSE Get(parent_mergeinfo),
            LAMBDA path_tweaked_parent_mergeinfo :
              svn_mergeinfo__equals(path_tweaked_parent_mergeinfo,
                                    Get(child_mergeinfo), TRUE))]

-----------------------------------------------------------------------------
(* Values the variables of a specification hold when it does not use them. *)

EngineIdle ==
  /\ fs = <<>> /\ cb = <<>> /\ pc = "unused" /\ query = <<>>
  /\ infos = <<>> /\ stats = <<>> /\ ret = <<>> /\ loop = <<>>
  /\ handles = <<>> /\ events = <<>> /\ refs = <<>> /\ parsed = <<>>
  /\ changes = <<>> /\ descents = <<>> /\ results = <<>>

HistIdle == histogram = <<>> /\ hsize = <<>>

CountIdle == content = <<>> /\ counted = -1

HeaderIdle == hcontent = <<>> /\ header = <<>>

ClientIdle == wc = <<>> /\ walk = <<>> /\ elide = <<>>

-----------------------------------------------------------------------------
(* get_stats called once, and twice, on any of the repositories. *)

Init ==
  /\ \E sc \in Scenarios : fs = sc.fs /\ cb = sc.cb
  /\ pc = "idle"
  /\ query = create_query(fs, "NULL", "NULL", "NULL", "NULL")
  /\ infos = <<>>
  /\ stats = create_stats
  /\ ret = [stats_set |-> FALSE, err |-> "none"]
  /\ loop = NoLoop
  /\ handles = <<>>
  /\ events = <<>>
  /\ refs = <<>>
  /\ parsed = <<>>
  /\ changes = <<>>
  /\ descents = <<>>
  /\ results = <<>>
  /\ HistIdle /\ CountIdle /\ HeaderIdle /\ ClientIdle

Next ==
  \/ GetStats
  \/ ReadPhysRevisionFile
  \/ PhysPackOpen
  \/ PhysPackRevision
  \/ PhysPackDone
  \/ LogOpen
  \/ LogBlock
  \/ LogDone
  \/ AggregateStats

Spec == Init /\ [][Next]_vars

NextTwice == Next \/ GetStatsAgain

\* two calls of get_stats, one after the other, on the same repository
SpecTwice == Init /\ [][NextTwice]_vars

\* The walk through the index of the logically addressed repositories,
\* The engine runs in the thread of its caller and yields at no point, so a
\* walk that can go on does go on.
InitLog == Init /\ fs.log_addressing

NextLog ==
  \/ GetStats
  \/ LogOpen
  \/ LogBlock
  \/ LogDone
  \/ AggregateStats

SpecLog ==
  InitLog /\ [][NextLog]_vars /\ WF_vars(LogBlock) /\ WF_vars(LogDone)

\* read_revisions runs in the thread of its caller, which waits for it: a
\* traversal that can take a step takes it.
SpecFair == Init /\ [][Next]_vars /\ WF_vars(Next)

-----------------------------------------------------------------------------
(* Harness of add_to_histogram: any sizes, one after the other. *)

HistInit ==
  /\ histogram = EmptyHistogram
  /\ hsize = <<>>
  /\ EngineIdle /\ CountIdle /\ HeaderIdle /\ ClientIdle

HistAdd ==
  /\ Len(hsize) < MaxAdds
  /\ \E size \in 0 .. MaxSize :
       /\ histogram' = add_to_histogram(histogram, size)
       /\ hsize' = Append(hsize, size)
  /\ UNCHANGED <<engineVars, countVars, headerVars, clientVars>>

HistNext == HistAdd

SpecHistogram == HistInit /\ [][HistNext]_vars

-----------------------------------------------------------------------------
(* Harness of initialize_largest_changes and add_change. *)

\* the changes the harness records: a plainly added file or a modified
\* directory, of any size
ChangeInputs ==
  { [rep_size |-> s, expanded_size |-> s, path |-> PathA,
     kind |-> "file_rep", plain_added |-> TRUE] : s \in 0 .. MaxChangeSize }
  \cup
  { [rep_size |-> s, expanded_size |-> s + 1, path |-> PathD,
     kind |-> "dir_rep", plain_added |-> FALSE] : s \in 0 .. MaxChangeSize }

ChangesInit ==
  /\ pc = "harness"
  /\ \E count \in 1 .. MaxCount :
       stats = [create_stats EXCEPT
                  !.largest_changes = initialize_largest_changes(count)]
  /\ changes = <<>>
  /\ fs = <<>> /\ cb = <<>> /\ query = <<>> /\ infos = <<>> /\ ret = <<>>
  /\ loop = <<>> /\ handles = <<>> /\ events = <<>> /\ refs = <<>>
  /\ parsed = <<>> /\ descents = <<>> /\ results = <<>>
  /\ HistIdle /\ CountIdle /\ HeaderIdle /\ ClientIdle

\* the revision of a recorded change is the number of changes before it
AddChange ==
  /\ pc = "harness"
  /\ Len(changes) < MaxChanges
  /\ \E c \in ChangeInputs :
       LET call == [rep_size |-> c.rep_size, expanded_size |-> c.expanded_size,
                    revision |-> Len(changes), path |-> c.path,
                    kind |-> c.kind, plain_added |-> c.plain_added]
       IN /\ stats' = add_change(stats, call.rep_size, call.expanded_size,
                                 call.revision, call.path, call.kind,
                                 call.plain_added)
          /\ changes' = Append(changes, call)
  /\ UNCHANGED <<fs, cb, pc, query, infos, ret, loop, handles, events, refs,
                 parsed, descents, results, histVars, countVars,
                 headerVars, clientVars>>

ChangesNext == AddChange

SpecChanges == ChangesInit /\ [][ChangesNext]_vars

-----------------------------------------------------------------------------
(* Harness of get_change_count: any byte string. *)

Bytes == {Newline, "a", " "}

RECURSIVE ByteStrings(_)
ByteStrings(n) ==
  IF n = 0 THEN {<<>>}
  ELSE LET shorter == ByteStrings(n - 1)
       IN shorter \cup {Append(b, c) : b \in {x \in shorter : Len(x) = n - 1},
                                       c \in Bytes}

CountInit ==
  /\ content \in ByteStrings(MaxLen)
  /\ counted = -1
  /\ EngineIdle /\ HistIdle /\ HeaderIdle /\ ClientIdle

CountChanges ==
  /\ counted = -1
  /\ counted' = get_change_count(content, Len(content))
  /\ UNCHANGED <<content, engineVars, histVars, headerVars, clientVars>>

CountNext == CountChanges

SpecChangeCount == CountInit /\ [][CountNext]_vars

-----------------------------------------------------------------------------
(* Harness of read_revision_header: revisions that end in any bytes. *)

HeaderBytes == {Newline, " ", "0", "9", Nul}

RECURSIVE Tails(_)
Tails(n) ==
  IF n = 0 THEN {<<>>}
  ELSE LET shorter == Tails(n - 1)
       IN shorter \cup {Append(b, c) : b \in {x \in shorter : Len(x) = n - 1},
                                       c \in HeaderBytes}

\* what comes before: nothing, the begin of a trailer line, and either
\* behind more bytes than the buffer holds
HeaderPrefixes ==
  {<<>>, <<Newline, "0", " ", "0">>, Filler(HeaderBufSize),
   Filler(HeaderBufSize) \o <<Newline, "0", " ", "0">>}

HeaderInit ==
  /\ hcontent \in { pre \o tail : pre \in HeaderPrefixes,
                                   tail \in Tails(MaxTail) }
  /\ header = [err |-> "unread"]
  /\ EngineIdle /\ HistIdle /\ CountIdle /\ ClientIdle

ReadRevisionHeader ==
  /\ header.err = "unread"
  /\ header' \in read_revision_header(hcontent)
  /\ UNCHANGED <<hcontent, engineVars, histVars, countVars, clientVars>>

HeaderNext == ReadRevisionHeader

SpecHeader == HeaderInit /\ [][HeaderNext]_vars

-----------------------------------------------------------------------------
(* Harness of svn_client__get_wc_mergeinfo: any working copy around a     *)
(* path, any limit on the way to the root, any kind of inheritance.        *)

PathNames == <<"a", "b", "c", "d">>

MergeRange(start, end, inheritable) ==
  [start |-> start, end |-> end, inheritable |-> inheritable]

\* svn:mergeinfo of a node: none, one that does not parse, an empty one, and
\* one with a range that is inherited and one that is not
Propvals ==
  {None,
   Opt([valid |-> FALSE, lines |-> <<>>]),
   Opt([valid |-> TRUE, lines |-> <<>>]),
   Opt([valid |-> TRUE,
        lines |-> <<[source |-> <<"t">>, rangelist |-> <<MergeRange(0, 1, TRUE)>>],
                    [source |-> <<"u">>,
                     rangelist |-> <<MergeRange(0, 1, FALSE)>>]>>])}

\* last changed revision and base revision of the ancestors
RevisionRanges ==
  { r \in [changed_rev : 1 .. MaxRev, base_rev : 1 .. MaxRev] :
      r.changed_rev <= r.base_rev }

Inheritances == {"explicit", "inherited", "nearest_ancestor"}

\* the working copies around a path of DEPTH components: the root of the
\* working copy is the node WC_ROOT components below the root directory;
\* the limit is the path or a directory above it
WorkingCopiesOf(depth) ==
  { [local_abspath |-> SubSeq(PathNames, 1, depth),
     limit_abspath |-> limit,
     inherit |-> inherit,
     nodes |-> [k \in 0 .. depth |->
                  [propval |-> propvals[k],
                   is_wc_root |-> k = wc_root,
                   changed_rev |-> IF k = depth THEN base ELSE range.changed_rev,
                   base_rev |-> IF k = depth THEN base ELSE range.base_rev]]] :
      limit \in {None} \cup { Opt(SubSeq(PathNames, 1, k)) : k \in 1 .. depth },
      inherit \in Inheritances,
      propvals \in { p \in [0 .. depth -> Propvals] :
                       p[0] = None \/ Get(p[0]).lines # <<>> },
      wc_root \in 0 .. depth,
      base \in {SVN_INVALID_REVNUM} \cup (1 .. MaxRev),
      range \in RevisionRanges }

WalkInit ==
  /\ wc \in UNION { WorkingCopiesOf(depth) : depth \in 1 .. MaxDepth }
  /\ walk = [pc |-> "called", inherit |-> wc.inherit,
             local_abspath |-> wc.local_abspath, walk_relpath |-> <<>>,
             wc_mergeinfo |-> None, base_revision |-> SVN_INVALID_REVNUM,
             reads |-> <<>>, examined |-> <<>>, err |-> "none",
             inherited |-> FALSE, mergeinfo |-> None, walked_path |-> <<>>]
  /\ elide = <<>>
  /\ EngineIdle /\ HistIdle /\ CountIdle /\ HeaderIdle

\* svn_client__get_wc_mergeinfo up to its loop
GetWcMergeinfo ==
  /\ walk.pc = "called"
  /\ walk' = [walk EXCEPT !.pc = "loop",
                          !.base_revision = NodeAt(walk.local_abspath).base_rev]
  /\ UNCHANGED <<wc, elide, engineVars, histVars, countVars, headerVars>>

WalkLoop ==
  /\ walk.pc = "loop"
  /\ walk' = WalkRound(walk)
  /\ UNCHANGED <<wc, elide, engineVars, histVars, countVars, headerVars>>

WalkReturn ==
  /\ walk.pc = "walked"
  /\ walk' = WalkResult(walk)
  /\ UNCHANGED <<wc, elide, engineVars, histVars, countVars, headerVars>>

WalkNext == GetWcMergeinfo \/ WalkLoop \/ WalkReturn

\* the function runs in the thread of its caller, which waits for it
SpecWalk == WalkInit /\ [][WalkNext]_vars /\ WF_vars(WalkNext)

-----------------------------------------------------------------------------
(* Harness of should_elide_mergeinfo: any two mergeinfos, any suffix. *)

MergeSources == {<<"t">>, <<"t", "x">>}

Rangelists == {<<MergeRange(0, 1, TRUE)>>, <<MergeRange(0, 1, FALSE)>>}

\* NULL and the mergeinfos of any of the merge sources
Mergeinfos ==
  {None} \cup { Opt(m) : m \in UNION { [sources -> Rangelists] :
                                          sources \in SUBSET MergeSources } }

PathSuffixes == {None, Opt(<<>>), Opt(<<"x">>)}

ElideInit ==
  /\ elide \in [parent_mergeinfo : Mergeinfos, child_mergeinfo : Mergeinfos,
                 path_suffix : PathSuffixes, returned : {FALSE},
                 elides : {FALSE}, parent_left : {None}]
  /\ wc = <<>> /\ walk = <<>>
  /\ EngineIdle /\ HistIdle /\ CountIdle /\ HeaderIdle

ShouldElideMergeinfo ==
  /\ ~elide.returned
  /\ \E r \in {should_elide_mergeinfo(elide.parent_mergeinfo,
                                       elide.child_mergeinfo,
                                       elide.path_suffix)} :
       elide' = [elide EXCEPT !.returned = TRUE, !.elides = r.elides,
                              !.parent_left = r.parent_mergeinfo]
  /\ UNCHANGED <<wc, walk, engineVars, histVars, countVars, headerVars>>

ElideNext == ShouldElideMergeinfo

SpecElide == ElideInit /\ [][ElideNext]_vars

-----------------------------------------------------------------------------
(* Claims about the accumulators. *)

HistogramFields ==
  {"rep_size_histogram", "node_size_histogram", "added_rep_size_histogram",
   "added_node_size_histogram", "unused_rep_histogram",
   "dir_prop_rep_histogram", "dir_prop_histogram", "file_prop_rep_histogram",
   "file_prop_histogram", "dir_rep_histogram", "dir_histogram",
   "file_rep_histogram", "file_histogram"}

\* every histogram of a statistics object, the per-extension ones included
AllHistograms(st) ==
  {st[f] : f \in HistogramFields}
  \cup {st.by_extension[e].node_histogram : e \in DOMAIN st.by_extension}
  \cup {st.by_extension[e].rep_histogram : e \in DOMAIN st.by_extension}

RECURSIVE SumLines(_, _, _)
SumLines(h, field, k) ==
  IF k < 0 THEN 0 ELSE h.lines[k][field] + SumLines(h, field, k - 1)

TotalsAgree(h) ==
  /\ SumLines(h, "count", HistogramLines - 1) = h.total.count
  /\ SumLines(h, "sum", HistogramLines - 1) = h.total.sum

\* C4: after any sequence of add_change calls, in every histogram of the
\* statistics the bucket counts sum to total.count and the bucket sums sum
\* to total.sum.
C4_HistogramTotals == \A h \in AllHistograms(stats) : TotalsAgree(h)

\* C4's case: three changes recorded, landing in different buckets of the
\* global rep-size histogram, and a per-extension histogram in use.
C4_Witness ==
  /\ stats.rep_size_histogram.total.count = 3
  /\ stats.rep_size_histogram.lines[0].count >= 1
  /\ stats.rep_size_histogram.lines[2].count >= 1
  /\ DOMAIN stats.by_extension # {}

\* the smallest k with 2^k > s
SmallestK(s) ==
  CHOOSE k \in 0 .. HistogramLines - 1 :
    /\ 2 ^ k > s
    /\ \A j \in 0 .. k - 1 : 2 ^ j <= s

\* C5: adding a size s >= 0 to a histogram adds one to the count, and s to
\* the sum, of exactly the bucket k with k the smallest integer such that
\* 2^k > s (bucket 0 for s = 0, bucket 4 for s = 10); no other bucket changes.
C5_BucketIndexLaw ==
  [][hsize' # hsize =>
       LET s == hsize'[Len(hsize')]
           k == SmallestK(s)
       IN /\ histogram'.lines[k] =
               [count |-> histogram.lines[k].count + 1,
                sum   |-> histogram.lines[k].sum + s]
          /\ \A j \in (0 .. HistogramLines - 1) \ {k} :
               histogram'.lines[j] = histogram.lines[j]
          /\ (s = 0 => k = 0)
          /\ (s = 10 => k = 4)]_vars

\* C5's case: sizes 0 and 10 were added and sit in buckets 0 and 4.
C5_Witness ==
  /\ \E i \in DOMAIN hsize : hsize[i] = 0
  /\ \E i \in DOMAIN hsize : hsize[i] = 10
  /\ histogram.lines[0].count >= 1
  /\ histogram.lines[4] = [count |-> 1, sum |-> 10]

LargestDescending(lc) ==
  \A i \in 1 .. lc.count - 1 : lc.changes[i].size >= lc.changes[i + 1].size

LargestWithinCapacity(lc) ==
  /\ DOMAIN lc.changes = 1 .. lc.count
  /\ Len(lc.changes) <= lc.count

SomePositiveChange == \E i \in DOMAIN changes : changes[i].rep_size >= 1

\* C6 as stated: after any sequence of add_change calls, the empty one
\* included, the list is descending by size, no longer than its capacity,
\* and min_size is the size of the last stored entry.
C6_Original ==
  LET lc == stats.largest_changes
  IN /\ LargestDescending(lc)
     /\ LargestWithinCapacity(lc)
     /\ lc.min_size = lc.changes[lc.count].size

\* C6 as amended: the list is always descending by size and no longer than
\* its capacity; min_size is the size of the last stored entry once a change
\* of size >= 1 has been recorded, and until then min_size is 1 while every
\* stored size is 0.
C6_LargestChangesInvariants ==
  LET lc == stats.largest_changes
  IN /\ LargestDescending(lc)
     /\ LargestWithinCapacity(lc)
     /\ SomePositiveChange => lc.min_size = lc.changes[lc.count].size
     /\ ~SomePositiveChange =>
          /\ lc.min_size = 1
          /\ \A i \in 1 .. lc.count : lc.changes[i].size = 0

\* C6's case: more positive changes recorded than the list holds, so that
\* the smallest was pushed out and min_size follows the new last entry.
C6_Witness ==
  LET lc == stats.largest_changes
  IN /\ Len(changes) > lc.count
     /\ \A i \in DOMAIN changes : changes[i].rep_size >= 1
     /\ \E i, j \in DOMAIN changes : changes[i].rep_size < changes[j].rep_size
     /\ lc.min_size = lc.changes[lc.count].size
     /\ lc.min_size >= 1

\* the number of recorded changes of the size SIZE, and of a larger one
RecordedOfSize(size) ==
  Cardinality({ k \in DOMAIN changes : changes[k].rep_size = size })

RecordedAbove(size) ==
  Cardinality({ k \in DOMAIN changes : changes[k].rep_size > size })

StoredOfSize(lc, size) ==
  Cardinality({ i \in 1 .. lc.count : lc.changes[i].size = size })

\* how many of the COUNT largest sizes recorded are SIZE
LargestOfSize(count, size) ==
  IF RecordedAbove(size) >= count THEN 0
  ELSE IF RecordedOfSize(size) <= count - RecordedAbove(size)
    THEN RecordedOfSize(size)
  ELSE count - RecordedAbove(size)

\* the entry is as initialize_largest_changes made it
Padding(entry) ==
  entry = [size |-> 0, revision |-> SVN_INVALID_REVNUM, path |-> <<>>]

\* the recorded change the entry was made from; the harness gives the k-th
\* change the revision k - 1
SuppliedBy(entry, k) ==
  /\ changes[k].rep_size = entry.size
  /\ changes[k].revision = entry.revision
  /\ changes[k].path = entry.path

\* C28: after any sequence of add_change calls the sizes stored in
\* largest_changes are, as a multiset, the largest sizes recorded, as many
\* as the list holds, with 0 for what is missing; every stored entry is
\* the size, revision and path of one recorded change, or an entry of size
\* 0 nothing was stored in; no change is stored twice, and of two stored
\* changes of the same size the one recorded earlier comes first.
C28_TopNContent ==
  LET lc == stats.largest_changes
  IN (pc = "harness") =>
       /\ \A size \in 1 .. MaxChangeSize :
            StoredOfSize(lc, size) = LargestOfSize(lc.count, size)
       /\ \A i \in 1 .. lc.count :
            /\ lc.changes[i].size \in 0 .. MaxChangeSize
            /\ \/ Padding(lc.changes[i])
               \/ \E k \in DOMAIN changes : SuppliedBy(lc.changes[i], k)
       /\ \A i, j \in 1 .. lc.count :
            (/\ i < j
             /\ ~Padding(lc.changes[i]) /\ ~Padding(lc.changes[j])
             /\ lc.changes[i].size = lc.changes[j].size) =>
              lc.changes[i].revision < lc.changes[j].revision

\* a smaller change was pushed out of a list of two entries by the second
\* of two changes of the same size, which stands behind the first
C28_Witness ==
  LET lc == stats.largest_changes
  IN /\ pc = "harness"
     /\ lc.count = 2
     /\ Len(changes) = 3
     /\ changes[1].rep_size = 1
     /\ lc.changes[1].size = 2 /\ lc.changes[2].size = 2
     /\ lc.changes[1].revision = 1 /\ lc.changes[2].revision = 2

\* the index of the first newline of B at or after I, 0 when there is none
RECURSIVE NextNewline(_, _)
NextNewline(b, i) ==
  IF i > Len(b) THEN 0
  ELSE IF b[i] = Newline THEN i ELSE NextNewline(b, i + 1)

\* the number of two-line records B consists of from index I on: a change
\* line that is not empty and a copy-from line that may be; -1 when B is no
\* sequence of such records
RECURSIVE Records(_, _)
Records(b, i) ==
  IF i > Len(b) THEN 0
  ELSE LET e1 == NextNewline(b, i)
           e2 == IF e1 = 0 THEN 0 ELSE NextNewline(b, e1 + 1)
       IN IF e1 = 0 \/ e1 = i \/ e2 = 0 THEN -1
          ELSE LET rest == Records(b, e2 + 1)
               IN IF rest = -1 THEN -1 ELSE rest + 1

NewlineCount(b) == Cardinality({i \in DOMAIN b : b[i] = Newline})

\* C7: for a byte string that is a well-formed changed-paths section of n
\* two-line records, get_change_count returns n, and the string holds 2*n
\* newlines.
C7_ChangeCountLaw ==
  (counted # -1 /\ Records(content, 1) >= 0) =>
     /\ counted = Records(content, 1)
     /\ NewlineCount(content) = 2 * Records(content, 1)

\* C7's case: a section of two records was counted.
C7_Witness ==
  /\ counted = 2
  /\ Records(content, 1) = 2

-----------------------------------------------------------------------------
(* The representation registry and the drivers. *)

\* the rep_stats_t objects of revision R's array that have offset O
RepsAt(r, o) ==
  IF r \in DOMAIN infos
    THEN { k \in DOMAIN infos[r].representations :
             infos[r].representations[k].offset = o }
    ELSE {}

\* the references made so far to the representation O of revision R
Referers(r, o) ==
  { k \in DOMAIN refs : refs[k].target = [rev |-> r, offset |-> o] }

\* whether the noderev ID of the repository names representation O of
\* revision R as its text or its properties
References(id, r, o) ==
  LET nr == fs.revs[id.rev].noderevs[id.item]
      Names(rep) == IsSome(rep) /\ Get(rep).revision = r
                    /\ Get(rep).item_index = o
  IN Names(nr.data_rep) \/ Names(nr.prop_rep)

ParsedNodes == { parsed[k] : k \in DOMAIN parsed }

\* the items that hold representations
RepItems == UNION { fs.revs[r].reps : r \in DOMAIN fs.revs }

\* two noderevs of revision R have been parsed that reference its
\* representation O, and nothing else has referenced it
TwoReferences(r, o) ==
  /\ Cardinality(Referers(r, o)) = 2
  /\ \E n1, n2 \in ParsedNodes :
       /\ n1 # n2 /\ n1.rev = r /\ n2.rev = r
       /\ References(n1, r, o) /\ References(n2, r, o)

\* C1: when two noderevs of one revision reference the representation at
\* the same offset, then once both are parsed the revision's array holds
\* exactly one rep_stats_t of that offset, and its ref_count is 2.
C1_RepresentationDedup ==
  \A r \in DOMAIN infos : \A o \in RepItems :
    TwoReferences(r, o) =>
      /\ Cardinality(RepsAt(r, o)) = 1
      /\ \A k \in RepsAt(r, o) : infos[r].representations[k].ref_count = 2

C1_Witness ==
  /\ pc = "returned" /\ ret.err = "none"
  /\ \E r \in DOMAIN infos : \E o \in RepItems :
       /\ TwoReferences(r, o)
       /\ \E k \in RepsAt(r, o) : infos[r].representations[k].ref_count = 2

\* the kind a reference gives a representation: by the kind of the noderev
\* and by the role the noderev names it in
ReferenceKind(ref) ==
  LET nr == fs.revs[ref.node.rev].noderevs[ref.node.item]
  IN IF ref.role = "text"
       THEN (IF nr.kind = "dir" THEN "dir_rep" ELSE "file_rep")
       ELSE (IF nr.kind = "dir" THEN "dir_property_rep"
                                ELSE "file_property_rep")

FirstReference(r, o) ==
  refs[CHOOSE k \in Referers(r, o) : \A j \in Referers(r, o) : k <= j]

\* C2: a rep_stats_t whose kind is not unused_rep has the kind its first
\* reference gave it (directory or file, text or properties); later
\* references, of whatever revision and role, leave it.
C2_KindAssignment ==
  \A r \in DOMAIN infos : \A k \in DOMAIN infos[r].representations :
    LET rep == infos[r].representations[k]
    IN rep.kind # "unused_rep" =>
         /\ Referers(r, rep.offset) # {}
         /\ rep.kind = ReferenceKind(FirstReference(r, rep.offset))

\* a representation was referenced again in another role or by a noderev
\* of a later revision, and kept its kind
C2_Witness ==
  /\ pc = "returned" /\ ret.err = "none"
  /\ \E r \in DOMAIN infos : \E k \in DOMAIN infos[r].representations :
       LET rep == infos[r].representations[k]
       IN \E j \in Referers(r, rep.offset) :
            /\ ReferenceKind(refs[j]) # rep.kind
            /\ refs[j].node.rev > r
            /\ rep.kind = ReferenceKind(FirstReference(r, rep.offset))

\* the add_change calls made for the representation O of revision R
ChangesOf(r, o) ==
  { j \in DOMAIN changes : changes[j].rep = [rev |-> r, offset |-> o] }

\* C3: every representation referenced is recorded as a change exactly
\* once in a run, also when a noderev names it both as its text and as its
\* properties.
C3_RecordedOnce ==
  ret.err = "none" =>
    \A r \in DOMAIN infos : \A k \in DOMAIN infos[r].representations :
      infos[r].representations[k].ref_count >= 1 =>
        Cardinality(ChangesOf(r, infos[r].representations[k].offset)) = 1

AllReps ==
  UNION { { <<query.revisions[j], k>> :
              k \in DOMAIN infos[query.revisions[j]].representations } :
          j \in DOMAIN query.revisions }

UnusedReps ==
  { x \in AllReps : infos[x[1]].representations[x[2]].kind = "unused_rep" }

\* C9: after aggregation the count of total_rep_stats is the sum of the
\* counts of the four kinds' rep stats and the number of unused
\* representations; every rep_stats_t of every revision is counted once.
C9_AggregateIdentity ==
  (pc = "returned" /\ ret.err = "none") =>
    /\ stats.total_rep_stats.total.count =
         stats.file_rep_stats.total.count
         + stats.dir_rep_stats.total.count
         + stats.file_prop_rep_stats.total.count
         + stats.dir_prop_rep_stats.total.count
         + Cardinality(UnusedReps)
    /\ stats.total_rep_stats.total.count = Cardinality(AllReps)

C9_Witness ==
  /\ pc = "returned" /\ ret.err = "none"
  /\ stats.file_rep_stats.total.count > 0
  /\ stats.dir_rep_stats.total.count > 0
  /\ stats.file_prop_rep_stats.total.count > 0
  /\ stats.dir_prop_rep_stats.total.count > 0

\* C10: when get_stats returns an error, the caller's *stats gives no
\* partially filled statistics: it is unset or holds what create_stats
\* made.
C10_NoPartialResult ==
  (pc = "returned" /\ ret.err # "none") =>
    (~ret.stats_set \/ stats = create_stats)

-----------------------------------------------------------------------------
(* Callbacks. *)

\* the read at place K of the log was preceded by a call of the cancel
\* function made for it: the call is for the same file or revision, and no
\* other read lies between
PolledBefore(k) ==
  \E j \in 1 .. (k - 1) :
    /\ events[j].ev = "cancel"
    /\ events[j].rev = events[k].rev
    /\ \A i \in (j + 1) .. (k - 1) : events[i].ev # "read"

\* every read of a revision (physical addressing) or of an index block
\* (logical addressing) has its own call of the cancel function
PollsPerRead ==
  query.cancel_func # "NULL" =>
    \A k \in DOMAIN events : events[k].ev = "read" => PolledBefore(k)

\* nothing is opened, read or reported once the cancel function has
\* reported cancellation, and get_stats has returned that
NothingAfterCancel ==
  \A k \in DOMAIN events :
    (events[k].ev = "cancel" /\ events[k].arg = "cancelled") =>
      /\ k = Len(events)
      /\ pc = "returned"
      /\ ret.err = "cancelled"

\* the revisions that noderevs have been parsed of
ParsedRevisions == { n.rev : n \in ParsedNodes }

\* as many calls of the cancel function as revisions processed
PollsPerRevision ==
  query.cancel_func # "NULL" =>
    CancelCount(events) >= Cardinality(ParsedRevisions)

\* C11 as stated: the cancel function is called once per revision in both
\* addressing modes and once per index block, and nothing is read after it
\* reports cancellation.
C11_Original ==
  PollsPerRead /\ NothingAfterCancel /\ PollsPerRevision

\* C11: with a cancel function, every revision read in physical addressing
\* and every index block read in logical addressing is preceded by its own
\* call of it; once it reports cancellation nothing more is read and the
\* parsed state stays as it is.
C11_CancellationPolling ==
  /\ [](PollsPerRead /\ NothingAfterCancel)
  /\ [][(ret.err = "cancelled") =>
          UNCHANGED <<infos, parsed, refs, changes, events>>]_vars

\* a run cancelled at the third call, two reads behind it
C11_Witness ==
  /\ pc = "returned" /\ ret.err = "cancelled"
  /\ Cardinality({k \in DOMAIN events : events[k].ev = "read"}) = 2
  /\ CancelCount(events) = 3

\* the revisions the progress function was called with, in order
ProgressRevisions ==
  LET calls == SelectSeq(events, LAMBDA e : e.ev = "progress")
  IN [k \in DOMAIN calls |-> calls[k].rev]

\* whether the schedule has a notification for revision R: the base of a
\* pack file, or an unpacked revision the interval divides
Notified(r) ==
  IF r < fs.min_unpacked_rev
    THEN r % fs.shard_size = 0
    ELSE IF fs.shard_size > 0
      THEN r % fs.shard_size = 0
      ELSE r % ProgressInterval = 0

\* the schedule for the whole repository
ProgressSchedule ==
  SelectSeq([k \in 1 .. (fs.head + 1) |-> k - 1], Notified)

IsPrefix(s, t) ==
  Len(s) <= Len(t) /\ \A k \in DOMAIN s : s[k] = t[k]

\* the root noderevs of the pack file starting at BASE have been parsed
ShardParsed(base) ==
  \A r \in base .. (base + fs.shard_size - 1) :
    [rev |-> r, item |-> fs.revs[r].root] \in ParsedNodes

\* C12: with a progress function, the notifications follow the schedule:
\* one per pack file, with its base revision, made when all revisions of
\* the pack are processed; one per unpacked revision divisible by
\* shard_size, or by 1000 when shard_size is 0; and no other.
C12_ProgressSchedule ==
  cb.progress_func # "NULL" =>
    /\ IsPrefix(ProgressRevisions, ProgressSchedule)
    /\ (pc = "returned" /\ ret.err = "none") =>
         ProgressRevisions = ProgressSchedule
    /\ \A k \in DOMAIN ProgressRevisions :
         ProgressRevisions[k] < fs.min_unpacked_rev =>
           ShardParsed(ProgressRevisions[k])

\* a pack file and an unpacked revision have both been reported
C12_Witness ==
  /\ pc = "returned" /\ ret.err = "none"
  /\ cb.progress_func # "NULL"
  /\ fs.min_unpacked_rev > 0
  /\ Len(ProgressRevisions) >= 2
  /\ \E k \in DOMAIN ProgressRevisions :
       ProgressRevisions[k] >= fs.min_unpacked_rev

\* C13: every call of the progress function gets the progress_baton the
\* caller of get_stats supplied.
C13_ProgressBaton ==
  \A k \in DOMAIN events :
    events[k].ev = "progress" => events[k].arg = cb.progress_baton

-----------------------------------------------------------------------------
(* Order of the traversal. *)

\* the references are made in the order of the revisions of the noderevs
\* making them: nothing of a revision is read once a later one was begun
ParsedInRevisionOrder ==
  \A j, k \in DOMAIN refs : j < k => refs[j].node.rev <= refs[k].node.rev

\* every representation is interned by a noderev of its own revision
InternedByOwnRevision ==
  \A k \in DOMAIN refs :
    FirstReference(refs[k].target.rev, refs[k].target.offset).node.rev
      = refs[k].target.rev

-----------------------------------------------------------------------------
(* File handles. *)

\* C16: reading a physically addressed pack file, the file is closed only
\* when all its revisions have been read, so nothing is read through a
\* closed file; the rev_file pointer of a revision is cleared as soon as
\* the revision is parsed.
C16_PackHandleLifetime ==
  /\ (pc = "phys_pack" /\ loop.i < query.shard_size) =>
       handles[loop.rev_file].state = "open"
  /\ \A k \in DOMAIN events :
       events[k].ev = "read" => events[k].arg = "open"
  /\ ~fs.log_addressing =>
       \A j \in DOMAIN query.revisions :
         infos[query.revisions[j]].rev_file = 0

OpenHandles == { h \in DOMAIN handles : handles[h].state = "open" }

\* C17: every pack or rev file opened is closed again by the driver that
\* opened it on every way out, also when an error or a cancellation is
\* returned, and before the next file is opened: at most one file is open
\* at any time and none once get_stats has returned.
C17_ScopedHandles ==
  /\ Cardinality(OpenHandles) <= 1
  /\ pc = "read_revisions" => OpenHandles = {}
  /\ pc = "returned" => OpenHandles = {}

-----------------------------------------------------------------------------
(* Aggregated numbers. *)

RepOf(x) == infos[x[1]].representations[x[2]]

\* what a representation adds to the number WHAT of a bucket
Contribution(rep, what) ==
  CASE what = "count" -> 1
    [] what = "references" -> rep.ref_count
    [] what = "expanded_size" -> rep.ref_count * rep.expanded_size

\* the sum of the contributions of the representations in S
RECURSIVE SumReps(_, _)
SumReps(S, what) ==
  IF S = {} THEN 0
  ELSE LET x == CHOOSE y \in S : TRUE
       IN Contribution(RepOf(x), what) + SumReps(S \ {x}, what)

\* what the bucket RS must hold for the representations in S
SplitAgrees(rs, S) ==
  /\ rs.uniques.count = Cardinality({x \in S : RepOf(x).ref_count = 1})
  /\ rs.shared.count = Cardinality({x \in S : RepOf(x).ref_count > 1})
  /\ rs.uniques.count + rs.shared.count = rs.total.count
  /\ rs.total.count = SumReps(S, "count")
  /\ rs.references = SumReps(S, "references")
  /\ rs.expanded_size = SumReps(S, "expanded_size")

RepsOfKind(kind) == { x \in AllReps : RepOf(x).kind = kind }

\* C18: after aggregation each of the five rep stats counts a
\* representation in uniques if and only if its ref_count is 1 and in
\* shared if and only if it is greater, so that uniques and shared add up
\* to total; references is the sum of the ref_counts and expanded_size the
\* sum of ref_count * expanded_size.
C18_UniqueSharedSplit ==
  (pc = "returned" /\ ret.err = "none") =>
    /\ SplitAgrees(stats.file_rep_stats, RepsOfKind("file_rep"))
    /\ SplitAgrees(stats.dir_rep_stats, RepsOfKind("dir_rep"))
    /\ SplitAgrees(stats.file_prop_rep_stats, RepsOfKind("file_property_rep"))
    /\ SplitAgrees(stats.dir_prop_rep_stats, RepsOfKind("dir_property_rep"))
    /\ SplitAgrees(stats.total_rep_stats, AllReps)

\* a file representation referenced twice, counted as shared with its two
\* references, beside unique ones
C18_Witness ==
  /\ pc = "returned" /\ ret.err = "none"
  /\ stats.file_rep_stats.shared.count = 1
  /\ stats.file_rep_stats.uniques.count = 2
  /\ stats.file_rep_stats.references = 4

\* whether revision R is the first of its pack or rev file
FileBase(r) ==
  IF r < fs.min_unpacked_rev THEN r % fs.shard_size = 0 ELSE TRUE

\* the revisions of the file that starts with revision R
FileOf(r) ==
  IF r < fs.min_unpacked_rev THEN r .. (r + fs.shard_size - 1) ELSE {r}

\* bytes of revision R in its file: its items, and in physical addressing
\* its trailer line
RevisionBytes(r) ==
  ItemsSize(fs.revs[r].items)
  + (IF fs.log_addressing THEN 0
     ELSE Len(Trailer(fs.revs[r].root, ChangesOffset(fs.revs[r]))))

RECURSIVE SumBytes(_)
SumBytes(R) ==
  IF R = {} THEN 0
  ELSE LET r == CHOOSE x \in R : TRUE
       IN RevisionBytes(r) + SumBytes(R \ {r})

\* C19: after a successful run total_size is the sum of the lengths of all
\* pack and rev files (the file size in physical, the maximum offset of
\* the index in logical addressing); in logical addressing the first
\* revision of a pack file accounts for the whole file and the others for
\* nothing.
C19_TotalSize ==
  (pc = "returned" /\ ret.err = "none") =>
    /\ stats.total_size = SumBytes(0 .. fs.head)
    /\ fs.log_addressing =>
         \A r \in 0 .. fs.head :
           infos[r].end - infos[r].offset =
             IF FileBase(r) THEN SumBytes(FileOf(r)) ELSE 0

\* a logically addressed pack file and a rev file have been read
C19_Witness ==
  /\ pc = "returned" /\ ret.err = "none"
  /\ fs.min_unpacked_rev > 0
  /\ fs.log_addressing
  /\ infos[1].end = 0
  /\ stats.total_size > infos[0].end

\* C20: after every completed parse of a node-revision each representation
\* stored in a revision has been referenced at least once, and only a
\* representation without references has the kind unused_rep.
C20_RepReferences ==
  \A x \in AllReps :
    /\ RepOf(x).ref_count >= 1
    /\ RepOf(x).kind = "unused_rep" => RepOf(x).ref_count = 0

\* node-revisions have been parsed that left one representation with a
\* single reference and another with several
C20_Witness ==
  /\ Len(parsed) >= 2
  /\ \E x, y \in AllReps : RepOf(x).ref_count = 1 /\ RepOf(y).ref_count >= 2

-----------------------------------------------------------------------------
(* The walk through the directories and through the index. *)

NoderevOf(id) == fs.revs[id.rev].noderevs[id.item]

Range(s) == { s[k] : k \in DOMAIN s }

\* the entries followed for the directory of the K-th record of the ghost
Followed(k) ==
  SelectSeq(descents,
            LAMBDA d : d.ev = "entry" /\ d.dir = descents[k].dir)

SameRevision(entries, rev) == SelectSeq(entries, LAMBDA e : e.rev = rev)

EntryIds(ds) == [j \in DOMAIN ds |-> ds[j].id]

\* C21: parse_dir is only called for a directory whose data rep has just
\* got its first reference, and only in physical addressing; of the
\* entries of that directory exactly those of the revision being read are
\* parsed, none of an earlier revision; in logical addressing there is no
\* recursion at all.
C21_DirectoryRecursion ==
  /\ fs.log_addressing => descents = <<>>
  /\ \A k \in DOMAIN descents :
       IF descents[k].ev = "parse_dir"
         THEN /\ NoderevOf(descents[k].dir).kind = "dir"
              /\ ~fs.log_addressing
              /\ descents[k].ref_count = 1
              /\ FirstReference(descents[k].rep.rev, descents[k].rep.offset)
                   = [node |-> descents[k].dir, role |-> "text",
                      target |-> descents[k].rep]
              /\ descents[k].dir \in ParsedNodes =>
                   EntryIds(Followed(k)) =
                     SameRevision(NoderevOf(descents[k].dir).entries,
                                  descents[k].dir.rev)
         ELSE /\ descents[k].id.rev = descents[k].revision
              /\ descents[k].revision = descents[k].dir.rev
              /\ \E j \in 1 .. k - 1 :
                   /\ descents[j].ev = "parse_dir"
                   /\ descents[j].dir = descents[k].dir

\* a directory with an entry of an earlier revision and entries of its own
\* revision has been read to its end, and so has a directory below it
C21_Witness ==
  /\ pc = "returned" /\ ret.err = "none"
  /\ \E k \in DOMAIN descents :
       /\ descents[k].ev = "parse_dir"
       /\ \E e \in Range(NoderevOf(descents[k].dir).entries) :
            e.rev < descents[k].dir.rev
       /\ Len(Followed(k)) = 2
  /\ \E k, j \in DOMAIN descents :
       /\ descents[k].ev = "entry" /\ descents[j].ev = "parse_dir"
       /\ descents[j].dir = descents[k].id

\* the entries the index returns for the block the walk stands at
WalkEntries ==
  svn_fs_fs__p2l_index_lookup(loop.base, loop.count, loop.offset,
                              fs.p2l_page_size)

\* the walk before the entry of index K of the block is looked at
WalkBefore(k) ==
  ProcessEntries([st |-> St, offset |-> loop.offset],
                 SubSeq(WalkEntries, 1, k), 0, loop.offset)

InWalk == pc = "log_walk" /\ loop.offset < loop.max_offset

SkippedEntry(k) ==
  \/ WalkEntries[k + 1].offset < WalkBefore(k).offset
  \/ WalkEntries[k + 1].size = 0

\* C22: an index entry that begins before the position of the walk, or
\* that has the size 0, leaves everything as it is: nothing is parsed, no
\* revision info, statistic or position changes and no error is raised.
C22_SkipRule ==
  InWalk =>
    \A k \in 0 .. Len(WalkEntries) - 1 :
      (WalkBefore(k).st.err = "none" /\ SkippedEntry(k)) =>
        ProcessEntry(WalkBefore(k), WalkEntries[k + 1], k, loop.offset,
                     ArrayIdx(WalkBefore(k).st.revisions,
                              WalkEntries[k + 1].item.revision))
          = WalkBefore(k)

\* a block whose first entry is a noderev that begins before the position
\* of the walk, behind an entry of size 0
C22_Witness ==
  /\ InWalk
  /\ WalkEntries[1].offset < loop.offset
  /\ WalkEntries[1].type = "noderev"
  /\ \E e \in Range(P2LEntries(loop.base, loop.count)) :
       e.size = 0 /\ e.offset < loop.offset

\* the revisions whose rev or pack file the index walk has gone through
Walked ==
  { r \in 0 .. fs.head :
      \/ r < loop.revision
      \/ /\ pc = "log_walk" /\ loop.offset >= loop.max_offset
         /\ r < loop.base + loop.count }

Occurrences(seq, x) == Cardinality({ k \in DOMAIN seq : seq[k] = x })

ChangesItem(r) ==
  fs.revs[r].items[CHOOSE k \in DOMAIN fs.revs[r].items :
                     fs.revs[r].items[k].type = "changes"]

\* every noderev and the changed-paths section of the revisions walked has
\* been processed once
ProcessedOnce ==
  fs.log_addressing =>
    /\ \A k, j \in DOMAIN parsed : parsed[k] = parsed[j] => k = j
    /\ \A r \in Walked :
         /\ \A item \in DOMAIN fs.revs[r].noderevs :
              Occurrences(parsed, Id(r, item)) = 1
         /\ infos[r].changes_len = ChangesItem(r).size
         /\ infos[r].change_count =
              get_change_count(fs.revs[r].changes_text, ChangesItem(r).size)

\* C23: the walk through the index of a rev or pack file comes to its end,
\* its position never goes back, and every noderev and changed-paths entry
\* is processed exactly once.
C23_WalkProgress ==
  /\ [](pc = "log_walk" => <>(pc # "log_walk"))
  /\ [][(pc = "log_walk" /\ pc' = "log_walk") =>
          loop'.offset > loop.offset]_vars
  /\ []ProcessedOnce

\* a pack file of two revisions walked to its end in more than two blocks
\* that overlap
C23_Witness ==
  /\ pc = "log_walk" /\ loop.offset >= loop.max_offset
  /\ loop.count = 2
  /\ fs.p2l_whole_page
  /\ Len(parsed) >= 4
  /\ Cardinality({ k \in DOMAIN events :
                     events[k].ev = "read" /\ events[k].rev = loop.base }) > 2

-----------------------------------------------------------------------------
(* The counters of the node-revisions. *)

\* the completed parses of noderevs of revision R that are of KIND, in the
\* order they were completed
ParsedOf(r, kind) ==
  SelectSeq(parsed, LAMBDA id : id.rev = r /\ NoderevOf(id).kind = kind)

ParsedKind(kind) == SelectSeq(parsed, LAMBDA id : NoderevOf(id).kind = kind)

\* the byte lengths of the records IDS names, summed up
NodeLens(ids) == SumSeq([k \in DOMAIN ids |-> NoderevOf(ids[k]).len])

NodeStatsOf(ids) == [count |-> Len(ids), size |-> NodeLens(ids)]

\* C24: the counters of a revision count the completed parses of its
\* directory and of its file noderevs and sum up their record lengths;
\* after aggregation dir_node_stats and file_node_stats are the sums over
\* all revisions and total_node_stats is the sum of the two.
C24_NoderevAccounting ==
  /\ \A r \in DOMAIN infos :
       /\ infos[r].dir_noderev_count = Len(ParsedOf(r, "dir"))
       /\ infos[r].dir_noderev_size = NodeLens(ParsedOf(r, "dir"))
       /\ infos[r].file_noderev_count = Len(ParsedOf(r, "file"))
       /\ infos[r].file_noderev_size = NodeLens(ParsedOf(r, "file"))
  /\ (pc = "returned" /\ ret.err = "none") =>
       /\ stats.dir_node_stats = NodeStatsOf(ParsedKind("dir"))
       /\ stats.file_node_stats = NodeStatsOf(ParsedKind("file"))
       /\ stats.total_node_stats.count =
            stats.dir_node_stats.count + stats.file_node_stats.count
       /\ stats.total_node_stats.size =
            stats.dir_node_stats.size + stats.file_node_stats.size
       /\ stats.total_node_stats = NodeStatsOf(parsed)

\* a run has ended well that parsed two directories and a file in one
\* revision and one directory in every other
C24_Witness ==
  /\ pc = "returned" /\ ret.err = "none"
  /\ \E r \in 0 .. fs.head :
       infos[r].dir_noderev_count = 2 /\ infos[r].file_noderev_count = 1
  /\ stats.dir_node_stats.count = fs.head + 2
  /\ stats.file_node_stats.size > 0

-----------------------------------------------------------------------------
(* The trailer line. *)

HeaderRead == pc = "unused" /\ header # <<>> /\ header.err # "unread"

\* the bytes of the revision read_revision_header looks at: the last 64
LastBlock ==
  (IF Len(hcontent) > HeaderBufSize THEN Len(hcontent) - HeaderBufSize + 1
   ELSE 1) .. Len(hcontent)

EndsWithNewline == hcontent # <<>> /\ hcontent[Len(hcontent)] = Newline

\* the newlines of the last block before the last byte
EarlierNewlines ==
  { k \in LastBlock : k < Len(hcontent) /\ hcontent[k] = Newline }

\* the newline that ends the line before the final one
LineBefore == CHOOSE k \in EarlierNewlines : \A j \in EarlierNewlines : j <= k

\* the final line without its newline
FinalLine == SubSeq(hcontent, LineBefore + 1, Len(hcontent) - 1)

\* the revision ends in a line of two unsigned integers with a space
\* between them
TwoIntegers(root_noderev, changes_offset) ==
  \E sp \in DOMAIN FinalLine :
    /\ FinalLine[sp] = " "
    /\ sp > 1 /\ sp < Len(FinalLine)
    /\ \A k \in DOMAIN FinalLine : k # sp => IsDigit(FinalLine[k])
    /\ root_noderev = DecimalValue(SubSeq(FinalLine, 1, sp - 1))
    /\ changes_offset = DecimalValue(SubSeq(FinalLine, sp + 1, Len(FinalLine)))

\* the trailer line of the damaged revision has been read
DamageMet ==
  /\ pc = "returned"
  /\ Len(query.revisions) = DamagedRev
  /\ ret.err \notin {"cancelled", "io"}

\* C25: read_revision_header fails with a Corrupt error when the last byte
\* of the revision is no newline, when the last 64 bytes hold no newline
\* before it, and when the final line holds no space; the revision is then
\* not recorded and the traversal ends with that error.
C25_TrailerErrors ==
  /\ (/\ HeaderRead
      /\ \/ hcontent # <<>> /\ ~EndsWithNewline
         \/ EndsWithNewline /\ EarlierNewlines = {}
         \/ EndsWithNewline /\ EarlierNewlines # {}
              /\ \A k \in DOMAIN FinalLine : FinalLine[k] # " ")
       => header.err = "corrupt"
  /\ (pc \notin {"unused", "idle"}
      /\ fs.damage \in {"no_newline", "long_line", "no_space"}) =>
       /\ Len(query.revisions) <= DamagedRev
       /\ DamageMet => ret.err = "corrupt"

\* C26: when read_revision_header succeeds, root_noderev and changes are
\* the two unsigned integers of the final line, and the bytes from changes
\* on, changes_len of them, end where the final line begins and lie within
\* the revision.
C26_ChangesRange ==
  (HeaderRead /\ header.err = "none") =>
    /\ EndsWithNewline /\ EarlierNewlines # {}
    /\ TwoIntegers(header.root_noderev, header.changes)
    /\ header.changes <= LineBefore
    /\ header.changes + header.changes_len = LineBefore
    /\ header.changes + header.changes_len <= Len(hcontent)

-----------------------------------------------------------------------------
(* The loops of read_revisions. *)

\* the layout of the repository is one the traversal is specified for
LayoutMet ==
  \/ /\ query.shard_size > 0
     /\ query.min_unpacked_rev % query.shard_size = 0
     /\ query.min_unpacked_rev <= query.head + 1
  \/ query.shard_size = 0 /\ query.min_unpacked_rev = 0

\* the first revisions of the pack and rev files the traversal has opened,
\* in the order it opened them
OpenedFiles ==
  [k \in DOMAIN SelectSeq(events, LAMBDA e : e.ev = "open") |->
     SelectSeq(events, LAMBDA e : e.ev = "open")[k].rev]

\* the first revisions of the files of the repository
FirstRevisions ==
  { r \in 0 .. query.head :
      r < query.min_unpacked_rev => r % query.shard_size = 0 }

\* the per-revision array holds the revisions from 0 on in their order, so
\* that entry I describes revision I
IndexedByRevision ==
  \A i \in DOMAIN query.revisions :
    /\ query.revisions[i] = i - 1
    /\ ArrayIdx(query.revisions, i - 1) = i - 1
    /\ infos[i - 1].revision = i - 1

Traversed ==
  /\ Len(query.revisions) = query.head + 1
  /\ { OpenedFiles[k] : k \in DOMAIN OpenedFiles } = FirstRevisions

\* C27: with shard_size > 0 and min_unpacked_rev a multiple of it up to
\* head + 1, or with both 0, read_revisions terminates; no file is opened
\* twice and the files are opened in ascending order; a traversal that
\* returns without an error has read every file and left head + 1 entries
\* in the per-revision array, and entry i of the array describes revision i
\* at any time.
C27_TraversalCoverage ==
  /\ [](pc # "idle" => LayoutMet)
  /\ <>(pc = "returned")
  /\ [](\A j, k \in DOMAIN OpenedFiles :
          j < k => OpenedFiles[j] < OpenedFiles[k])
  /\ [](pc # "idle" => IndexedByRevision)
  /\ []((pc = "returned" /\ ret.err = "none") => Traversed)

\* a pack file of two revisions and a rev file behind it have been read
C27_Witness ==
  /\ pc = "returned" /\ ret.err = "none"
  /\ query.min_unpacked_rev = ShardSize
  /\ OpenedFiles = <<0, ShardSize>>
  /\ Len(query.revisions) = HeadRev + 1

-----------------------------------------------------------------------------
(* The walk of svn_client__get_wc_mergeinfo towards the root. *)

\* the path P is above the path Q
Above(p, q) == Len(p) < Len(q) /\ SubSeq(q, 1, Len(p)) = p

StartDepth == Len(wc.local_abspath)

\* the directory K components below the root directory, on the way to the
\* path of the call
Ancestor(k) == SubSeq(wc.local_abspath, 1, k)

\* the path the root of the working copy is at
WcRoot == Ancestor(CHOOSE k \in 0 .. StartDepth : wc.nodes[k].is_wc_root)

\* mergeinfo is looked for at the path of the call unless the nearest
\* ancestor is asked for, and there is some when svn:mergeinfo is set
HasMergeinfo(k) ==
  /\ k = StartDepth => wc.inherit # "nearest_ancestor"
  /\ IsSome(wc.nodes[k].propval)

\* the base revision of the path of the call is outside the range from
\* the last changed revision to the base revision of Ancestor(k)
OutsideOf(k) ==
  /\ k < StartDepth
  /\ wc.nodes[StartDepth].base_rev # SVN_INVALID_REVNUM
  /\ \/ wc.nodes[StartDepth].base_rev < wc.nodes[k].changed_rev
     \/ wc.nodes[StartDepth].base_rev > wc.nodes[k].base_rev

\* the walk does not go on from Ancestor(k)
EndsAt(k) ==
  \/ HasMergeinfo(k)
  \/ wc.limit_abspath = Opt(Ancestor(k))
  \/ wc.nodes[k].is_wc_root
  \/ k = 0
  \/ OutsideOf(k)
  \/ k = StartDepth /\ wc.inherit = "explicit"

\* where the walk is to end: at the first such path on the way up
EndDepth ==
  CHOOSE k \in 0 .. StartDepth :
    EndsAt(k) /\ \A j \in (k + 1) .. StartDepth : ~EndsAt(j)

\* the paths mergeinfo is to be read from, in their order
PathsToRead ==
  LET from == IF wc.inherit = "nearest_ancestor"
                THEN StartDepth - 1 ELSE StartDepth
      to   == IF OutsideOf(EndDepth) THEN EndDepth + 1 ELSE EndDepth
  IN [i \in 1 .. (from - to + 1) |-> Ancestor(from - i + 1)]

WalkOver == walk.pc \in {"walked", "returned"}

\* C29: the walk of svn_client__get_wc_mergeinfo comes to its end; it reads
\* no mergeinfo from a path above limit_abspath or above the root of the
\* working copy; it ends at the first path that has mergeinfo, is the
\* limit, the root of the working copy or the root directory, or whose
\* revisions from last changed to base do not hold the base revision of
\* the path it started from; inherited is TRUE only for mergeinfo found on
\* a directory above that path, the walked path being what lies between
\* them; with inherit = explicit nothing but that path is looked at.
C29_MergeinfoWalk ==
  /\ <>(walk.pc = "returned")
  /\ [](\A i \in DOMAIN walk.reads :
          /\ IsSome(wc.limit_abspath) =>
               ~Above(walk.reads[i], Get(wc.limit_abspath))
          /\ ~Above(walk.reads[i], WcRoot))
  /\ [](/\ Len(walk.reads) <= Len(PathsToRead)
        /\ walk.reads = SubSeq(PathsToRead, 1, Len(walk.reads)))
  /\ [](WalkOver => /\ walk.local_abspath = Ancestor(EndDepth)
                    /\ walk.reads = PathsToRead)
  /\ []((walk.pc = "returned" /\ walk.err = "none") =>
          /\ walk.inherited <=>
               (HasMergeinfo(EndDepth) /\ EndDepth < StartDepth
                /\ ~OutsideOf(EndDepth))
          /\ walk.inherited =>
               /\ walk.walked_path # <<>>
               /\ Ancestor(EndDepth) \o walk.walked_path = wc.local_abspath
               /\ IsSome(walk.mergeinfo))
  /\ [](wc.inherit = "explicit" =>
          /\ walk.local_abspath = wc.local_abspath
          /\ walk.examined = <<>>
          /\ \A i \in DOMAIN walk.reads : walk.reads[i] = wc.local_abspath)

\* mergeinfo of the root directory, two directories above the path, has
\* been inherited
C29_Witness ==
  /\ walk.pc = "returned" /\ walk.err = "none"
  /\ walk.inherited
  /\ Len(walk.walked_path) = 2
  /\ Len(walk.reads) = 3
  /\ walk.local_abspath = <<>>

-----------------------------------------------------------------------------
(* The elision of mergeinfo. *)

NullOrEmpty(mergeinfo) == ~IsSome(mergeinfo) \/ DOMAIN Get(mergeinfo) = {}

\* the suffix to append: none when path_suffix is NULL
SuffixGiven ==
  IF IsSome(elide.path_suffix) THEN Get(elide.path_suffix) ELSE <<>>

\* CHILD is PARENT with SuffixGiven appended to every merge source
EqualsSuffixed(child, parent) ==
  /\ DOMAIN child = { merge_source \o SuffixGiven :
                        merge_source \in DOMAIN parent }
  /\ \A merge_source \in DOMAIN parent :
       child[merge_source \o SuffixGiven] = parent[merge_source]

\* C30: should_elide_mergeinfo reports no elision for a NULL child; for an
\* empty child it reports elision iff the parent is NULL or empty; for a
\* non-empty child with a NULL or empty parent it reports none; otherwise
\* it reports elision iff the child equals the parent with path_suffix,
\* when given, appended to every merge source of the parent; the parent
\* mergeinfo is left as it was.
C30_ElisionDecision ==
  elide.returned =>
    /\ ~IsSome(elide.child_mergeinfo) => ~elide.elides
    /\ (IsSome(elide.child_mergeinfo)
        /\ DOMAIN Get(elide.child_mergeinfo) = {}) =>
         (elide.elides <=> NullOrEmpty(elide.parent_mergeinfo))
    /\ (~NullOrEmpty(elide.child_mergeinfo)
        /\ NullOrEmpty(elide.parent_mergeinfo)) => ~elide.elides
    /\ (~NullOrEmpty(elide.child_mergeinfo)
        /\ ~NullOrEmpty(elide.parent_mergeinfo)) =>
         (elide.elides <=> EqualsSuffixed(Get(elide.child_mergeinfo),
                                          Get(elide.parent_mergeinfo)))
    /\ elide.parent_left = elide.parent_mergeinfo

\* a child whose merge source is that of its parent with the suffix
\* appended is reported to elide
C30_Witness ==
  /\ elide.returned /\ elide.elides
  /\ elide.path_suffix = Opt(<<"x">>)
  /\ IsSome(elide.parent_mergeinfo) /\ IsSome(elide.child_mergeinfo)
  /\ DOMAIN Get(elide.parent_mergeinfo) = {<<"t">>}
  /\ DOMAIN Get(elide.child_mergeinfo) = {<<"t", "x">>}

=============================================================================
